---------------------------- MODULE Spec2Model ----------------------------
(***************************************************************************)
(* Model of the credential and token engine of bytek-api                   *)
(* (src/src/core/auth.ts): PBKDF2 password hashing and verification, and   *)
(* HS256 token issuance and verification.                                  *)
(*                                                                         *)
(* A JavaScript string is a sequence of UTF-16 code units (naturals), a    *)
(* byte array a sequence of 0..255.  An operation that may raise returns   *)
(* Ret(v) or Throw(name).  The two Web Crypto digests (PBKDF2-SHA256 and   *)
(* HMAC-SHA256) are modelled as ideal keyed digests with the real output   *)
(* length: deterministic, and distinct on the distinct inputs explored.    *)
(*                                                                         *)
(* The HTTP layer (login and getMe of services/auth.service.ts,            *)
(* authMiddleware, the two routes of the auth controller and the global    *)
(* error handler) runs over the users table db; a request is one action.   *)
(* Two requests served at the same time advance one await at a time        *)
(* (inflight).  The four core operations also run on a runtime whose       *)
(* crypto.subtle primitives raise.                                         *)
(***************************************************************************)
EXTENDS Integers, Sequences, FiniteSets, TLC

VARIABLES now, issued, cred, call, db, held, inflight

vars == <<now, issued, cred, call, db, held, inflight>>

\* ── outcomes ──────────────────────────────────────────────────────────────
Ret(v) == [ok |-> TRUE, v |-> v]

Throw(e) == [ok |-> FALSE, err |-> e]

\* JavaScript null / undefined
Null == [t |-> "null"]

Undefined == [t |-> "undefined"]

\* ── constants of core/auth.ts ─────────────────────────────────────────────
SALT_LENGTH == 16

JWT_EXPIRATION_SECONDS == 86400

\* deriveBits(..., 256) and the SHA-256 output of HMAC: 32 bytes
HASH_BYTES == 32

\* ── characters ────────────────────────────────────────────────────────────
DOT == 46

EQUALS == 61

PLUS == 43

SLASH == 47

MINUS == 45

UNDERSCORE == 95

QUOTE == 34

BACKSLASH == 92

\* ── base64 alphabet (btoa / atob) ─────────────────────────────────────────
B64Char(i) ==
    IF i < 26 THEN 65 + i
    ELSE IF i < 52 THEN 97 + (i - 26)
    ELSE IF i < 62 THEN 48 + (i - 52)
    ELSE IF i = 62 THEN PLUS ELSE SLASH

\* index of a character in the alphabet, -1 when it is not a base64 character
B64Index(c) ==
    IF c >= 65 /\ c <= 90 THEN c - 65
    ELSE IF c >= 97 /\ c <= 122 THEN c - 97 + 26
    ELSE IF c >= 48 /\ c <= 57 THEN c - 48 + 52
    ELSE IF c = PLUS THEN 62
    ELSE IF c = SLASH THEN 63 ELSE -1

\* the base64 text of bytes b, '=' padded: character k of the text
B64Encode(b) ==
    LET n == Len(b)
        Byte(j) == IF j <= n THEN b[j] ELSE 0
    IN [k \in 1..(4 * ((n + 2) \div 3)) |->
          LET g == 3 * ((k - 1) \div 4)
              r == (k - 1) % 4
          IN IF r = 0 THEN B64Char(Byte(g + 1) \div 4)
             ELSE IF r = 1
                  THEN B64Char((Byte(g + 1) % 4) * 16 + (Byte(g + 2) \div 16))
             ELSE IF r = 2
                  THEN IF g + 2 > n THEN EQUALS
                       ELSE B64Char((Byte(g + 2) % 16) * 4 + (Byte(g + 3) \div 64))
             ELSE IF g + 3 > n THEN EQUALS ELSE B64Char(Byte(g + 3) % 64)]

\* btoa: raises on a code unit above 0xFF
btoa(s) ==
    IF \E i \in 1..Len(s) : s[i] > 255
    THEN Throw("InvalidCharacterError")
    ELSE Ret(B64Encode(s))

IsAsciiWhitespace(c) == c \in {9, 10, 12, 13, 32}

\* the bytes of base64 characters d: byte j of the result.  A final group of
\* 2 or 3 characters yields 1 or 2 bytes and its remaining low bits are
\* discarded unchecked.
B64Decode(d) ==
    [j \in 1..((Len(d) * 3) \div 4) |->
        LET g == 4 * ((j - 1) \div 3)
            r == (j - 1) % 3
        IN IF r = 0
           THEN B64Index(d[g + 1]) * 4 + (B64Index(d[g + 2]) \div 16)
           ELSE IF r = 1
                THEN (B64Index(d[g + 2]) % 16) * 16 + (B64Index(d[g + 3]) \div 4)
                ELSE (B64Index(d[g + 3]) % 4) * 64 + B64Index(d[g + 4])]

\* atob: the forgiving-base64 decode of the HTML standard
atob(s) ==
    LET stripped == SelectSeq(s, LAMBDA c : ~IsAsciiWhitespace(c))
        m == Len(stripped)
        unpadded ==
            IF m > 0 /\ m % 4 = 0
            THEN IF stripped[m] = EQUALS /\ stripped[m-1] = EQUALS
                 THEN SubSeq(stripped, 1, m - 2)
                 ELSE IF stripped[m] = EQUALS
                      THEN SubSeq(stripped, 1, m - 1)
                      ELSE stripped
            ELSE stripped
    IN IF Len(unpadded) % 4 = 1 THEN Throw("InvalidCharacterError")
       ELSE IF \E i \in 1..Len(unpadded) : B64Index(unpadded[i]) = -1
            THEN Throw("InvalidCharacterError")
            ELSE Ret(B64Decode(unpadded))

arrayBufferToBase64(buffer) == btoa(buffer).v

base64ToArrayBuffer(base64) == atob(base64)

\* s.replace(/=+$/, "")
RECURSIVE StripTrailingEquals(_)
StripTrailingEquals(s) ==
    IF Len(s) > 0 /\ s[Len(s)] = EQUALS
    THEN StripTrailingEquals(SubSeq(s, 1, Len(s) - 1))
    ELSE s

\* s.replace(/x/g, y) for single characters
ReplaceAll(s, x, y) == [i \in 1..Len(s) |-> IF s[i] = x THEN y ELSE s[i]]

base64UrlEncode(data) ==
    LET r == btoa(data) IN
    IF ~r.ok THEN r
    ELSE Ret(StripTrailingEquals(
                 ReplaceAll(ReplaceAll(r.v, PLUS, MINUS), SLASH, UNDERSCORE)))

base64UrlDecode(data) ==
    atob(ReplaceAll(ReplaceAll(data, MINUS, PLUS), UNDERSCORE, SLASH))


\* ── JavaScript string helpers ─────────────────────────────────────────────
\* a split that drops the empty part after a trailing separator
Split_NoTrailing(s, c) ==
    LET t == IF Len(s) > 0 /\ s[Len(s)] = c THEN SubSeq(s, 1, Len(s) - 1) ELSE s
        seps == {i \in 1..Len(t) : t[i] = c}
        At(k) == IF k = 0 THEN 0
                 ELSE IF k > Cardinality(seps) THEN Len(t) + 1
                 ELSE CHOOSE i \in seps : Cardinality({j \in seps : j < i}) = k - 1
    IN [k \in 1..(Cardinality(seps) + 1) |-> SubSeq(t, At(k - 1) + 1, At(k) - 1)]

\* s.split(c): every separator delimits a part; "" splits into one empty part
Split(s, c) ==
    LET seps == {i \in 1..Len(s) : s[i] = c}
        \* position of the k-th separator; 0 and Len(s)+1 bracket the string
        At(k) == IF k = 0 THEN 0
                 ELSE IF k > Cardinality(seps) THEN Len(s) + 1
                 ELSE CHOOSE i \in seps : Cardinality({j \in seps : j < i}) = k - 1
    IN [k \in 1..(Cardinality(seps) + 1) |-> SubSeq(s, At(k - 1) + 1, At(k) - 1)]

\* one code unit in UTF-8 (no surrogates among the inputs)
Utf8(c) ==
    IF c < 128 THEN <<c>>
    ELSE IF c < 2048 THEN <<192 + (c \div 64), 128 + (c % 64)>>
    ELSE <<224 + (c \div 4096), 128 + ((c \div 64) % 64), 128 + (c % 64)>>

RECURSIVE TextEncodeFrom(_, _)
TextEncodeFrom(s, i) ==
    IF i > Len(s) THEN <<>> ELSE Utf8(s[i]) \o TextEncodeFrom(s, i + 1)

\* new TextEncoder().encode(s): ASCII text encodes to itself
TextEncode(s) ==
    IF \A i \in 1..Len(s) : s[i] < 128 THEN s ELSE TextEncodeFrom(s, 1)

\* ── ideal digests standing for the Web Crypto primitives ──────────────────
Mix(h, c) == (h * 131 + c + 1) % (1000 * 1000 + 3)

RECURSIVE Absorb(_, _, _)
\* h after absorbing data[i..], four bytes to a step (the test on h makes
\* the accumulator a value at every step)
Absorb(h, data, i) ==
    IF h < 0 \/ i > Len(data) THEN h
    ELSE IF i + 3 <= Len(data)
         THEN Absorb(Mix(Mix(Mix(Mix(h, data[i]), data[i+1]), data[i+2]), data[i+3]),
                     data, i + 4)
         ELSE Absorb(Mix(h, data[i]), data, i + 1)

Rekey(h) == (h * 7 + 5) % (1000 * 1000 + 3)

\* HASH_BYTES bytes, the first three of which determine h
Expand(h) ==
    [i \in 1..HASH_BYTES |->
        ((h \div (IF (i - 1) % 3 = 0 THEN 1
                  ELSE IF (i - 1) % 3 = 1 THEN 256 ELSE 65536)) + 7 * i) % 256]

\* crypto.subtle.deriveBits({name: "PBKDF2", salt, ...}, keyMaterial, 256)
PBKDF2(passwordBytes, salt) ==
    Expand(Absorb(Rekey(Absorb(3, salt, 1)), passwordBytes, 1))

\* crypto.subtle.sign("HMAC", key, data)
HMAC(keyBytes, data) ==
    Expand(Absorb(Rekey(Absorb(11, keyBytes, 1)), data, 1))

\* ── bitwise operators on bytes ────────────────────────────────────────────
RECURSIVE BitXor(_, _)
\* a ^ b on non-negative integers
BitXor(a, b) ==
    IF a = b THEN 0
    ELSE (((a % 2) + (b % 2)) % 2) + 2 * BitXor(a \div 2, b \div 2)

RECURSIVE BitOr(_, _)
\* a | b on non-negative integers
BitOr(a, b) ==
    IF a = 0 THEN b
    ELSE IF b = 0 THEN a
    ELSE (IF a % 2 = 1 \/ b % 2 = 1 THEN 1 ELSE 0) + 2 * BitOr(a \div 2, b \div 2)

\* ── the Web Crypto runtime ────────────────────────────────────────────────
\* The runtime a call runs on is the set of crypto.subtle primitives that
\* raise on it: none on a usable runtime.
SubtleOps == {"importKey", "sign", "verify", "deriveBits"}

Usable == {}

\* what an awaited primitive of an unusable runtime raises
OperationError == Throw("OperationError")

\* ── password hashing ──────────────────────────────────────────────────────
\* deriveKey asking deriveBits for 128 bits
deriveKey_Truncated(password, salt) ==
    SubSeq(PBKDF2(TextEncode(password), salt), 1, 16)

\* the bits deriveKey returns when importKey and deriveBits both complete
deriveKey(password, salt) == PBKDF2(TextEncode(password), salt)

\* deriveKey on the runtime subtle: importKey, then deriveBits, neither
\* inside a try block
deriveKeyWith(subtle, password, salt) ==
    IF "importKey" \in subtle THEN OperationError
    ELSE IF "deriveBits" \in subtle THEN OperationError
    ELSE Ret(deriveKey(password, salt))

\* hashPassword writing the two parts in the wrong order
hashPassword_Swapped(password, salt) ==
    arrayBufferToBase64(deriveKey(password, salt)) \o <<DOT>>
        \o arrayBufferToBase64(salt)

\* hashPassword using the zero-filled array without drawing random values
hashPassword_ZeroSalt(password, salt) ==
    arrayBufferToBase64([i \in 1..SALT_LENGTH |-> 0]) \o <<DOT>>
        \o arrayBufferToBase64(deriveKey(password, [i \in 1..SALT_LENGTH |-> 0]))

\* hashPassword on the runtime subtle, with the salt that
\* crypto.getRandomValues drew
hashPasswordWith(subtle, password, salt) ==
    LET hash == deriveKeyWith(subtle, password, salt) IN
    IF ~hash.ok THEN hash
    ELSE Ret(arrayBufferToBase64(salt) \o <<DOT>> \o arrayBufferToBase64(hash.v))

\* hashPassword on a usable runtime: the string it resolves to
hashPassword(password, salt) == hashPasswordWith(Usable, password, salt).v

\* the comparison loop leaving at the first mismatching byte
CompareLoop_EarlyExit(expected, actual, i, result, examined) ==
    LET firstDiff == {j \in i..Len(expected) : expected[j] # actual[j]} IN
    IF firstDiff = {}
    THEN [result |-> result, examined |-> examined + (Len(expected) - i + 1)]
    ELSE [result |-> 1,
          examined |-> examined
              + ((CHOOSE j \in firstDiff : \A k \in firstDiff : j <= k) - i + 1)]

RECURSIVE CompareLoop(_, _, _, _, _)
\* the loop of verifyPassword with the count of the bytes it has read:
\* for (i = 0; i < expected.length; i++) result |= expected[i] ^ actual[i]
CompareLoop(expected, actual, i, result, examined) ==
    IF result < 0 \/ examined < 0 \/ i > Len(expected)
    THEN [result |-> result, examined |-> examined]
    ELSE CompareLoop(expected, actual, i + 1,
                     BitOr(result, BitXor(expected[i], actual[i])), examined + 1)

\* the comparison loop never entered
XorAccumulate_NoLoop(expected, actual, i, result) == result

RECURSIVE XorAccumulate(_, _, _, _)
\* the loop of verifyPassword: result |= expected[i] ^ actual[i], for every i
XorAccumulate(expected, actual, i, result) ==
    IF result < 0 \/ i > Len(expected) THEN result
    ELSE XorAccumulate(expected, actual, i + 1,
                       BitOr(result, BitXor(expected[i], actual[i])))

\* verifyPassword testing only the salt part for absence; a missing hash part
\* is then read as the text "undefined"
verifyPassword_NoHashGuard(password, storedHash) ==
    LET parts == Split(storedHash, DOT)
        hashB64 == IF Len(parts) < 2
                   THEN <<117, 110, 100, 101, 102, 105, 110, 101, 100>>
                   ELSE parts[2]
    IN IF Len(parts[1]) = 0 THEN Ret(FALSE)
       ELSE LET saltR == base64ToArrayBuffer(parts[1])
                expectedR == base64ToArrayBuffer(hashB64)
            IN IF ~saltR.ok THEN saltR
               ELSE IF ~expectedR.ok THEN expectedR
               ELSE LET expected == expectedR.v
                        actual == deriveKey(password, saltR.v)
                    IN IF Len(expected) # Len(actual) THEN Ret(FALSE)
                       ELSE Ret(XorAccumulate(expected, actual, 1, 0) = 0)

\* verifyPassword on the runtime subtle
verifyPasswordWith(subtle, password, storedHash) ==
    LET parts == Split(storedHash, DOT)
        saltMissing == Len(parts[1]) = 0
        hashMissing == Len(parts) < 2 \/ Len(parts[2]) = 0
    IN IF saltMissing \/ hashMissing THEN Ret(FALSE)
       ELSE LET saltR == base64ToArrayBuffer(parts[1])
                expectedR == base64ToArrayBuffer(parts[2])
            IN IF ~saltR.ok THEN saltR
               ELSE IF ~expectedR.ok THEN expectedR
               ELSE LET actualR == deriveKeyWith(subtle, password, saltR.v) IN
                    IF ~actualR.ok THEN actualR
                    ELSE LET expected == expectedR.v
                             actual == actualR.v
                         IN IF Len(expected) # Len(actual) THEN Ret(FALSE)
                            ELSE Ret(XorAccumulate(expected, actual, 1, 0) = 0)

\* verifyPassword on a usable runtime
verifyPassword(password, storedHash) ==
    verifyPasswordWith(Usable, password, storedHash)

\* ── JSON ──────────────────────────────────────────────────────────────────
\* Values: Num(n), Str(s), Null, and Obj(<<[k |-> key, v |-> value], ...>>)
\* with the members in insertion order.
Num(n) == [t |-> "num", v |-> n]

Str(s) == [t |-> "str", v |-> s]

Obj(members) == [t |-> "obj", m |-> members]

RECURSIVE Digits(_)
\* String(n) for a non-negative integer
Digits(n) == IF n < 10 THEN <<48 + n>> ELSE Digits(n \div 10) \o <<48 + (n % 10)>>

RECURSIVE EscapeFrom(_, _)
\* JSON.stringify's escaping of '"' and '\' (no control characters among the inputs)
EscapeFrom(s, i) ==
    IF i > Len(s) THEN <<>>
    ELSE (IF s[i] = QUOTE \/ s[i] = BACKSLASH THEN <<BACKSLASH, s[i]>> ELSE <<s[i]>>)
         \o EscapeFrom(s, i + 1)

Quoted(s) == <<QUOTE>> \o EscapeFrom(s, 1) \o <<QUOTE>>

StringifyScalar(x) == IF x.t = "num" THEN Digits(x.v) ELSE Quoted(x.v)

RECURSIVE StringifyMembers(_, _)
StringifyMembers(m, i) ==
    IF i > Len(m) THEN <<>>
    ELSE (IF i > 1 THEN <<44>> ELSE <<>>)
         \o Quoted(m[i].k) \o <<58>> \o StringifyScalar(m[i].v)
         \o StringifyMembers(m, i + 1)

\* JSON.stringify of a flat object: compact, members in insertion order
JSONStringify(o) == <<123>> \o StringifyMembers(o.m, 1) \o <<125>>

IsDigit(c) == c >= 48 /\ c <= 57

RECURSIVE ParseStringBody(_, _, _)
\* s[i..] after an opening quote: the string up to the closing quote
ParseStringBody(s, i, acc) ==
    IF i > Len(s) THEN [ok |-> FALSE]
    ELSE IF s[i] = QUOTE THEN [ok |-> TRUE, v |-> Str(acc), pos |-> i + 1]
    ELSE IF s[i] < 32 THEN [ok |-> FALSE]
    ELSE IF s[i] = BACKSLASH
         THEN IF i + 1 <= Len(s) /\ s[i+1] \in {QUOTE, BACKSLASH}
              THEN ParseStringBody(s, i + 2, Append(acc, s[i+1]))
              ELSE [ok |-> FALSE]
         ELSE ParseStringBody(s, i + 1, Append(acc, s[i]))

RECURSIVE ParseDigits(_, _, _)
ParseDigits(s, i, acc) ==
    IF i <= Len(s) /\ IsDigit(s[i])
    THEN ParseDigits(s, i + 1, acc * 10 + (s[i] - 48))
    ELSE [ok |-> TRUE, v |-> Num(acc), pos |-> i]

\* a string, a non-negative integer (no leading zero) or null at s[i..]
ParseScalar(s, i) ==
    IF i > Len(s) THEN [ok |-> FALSE]
    ELSE IF s[i] = QUOTE THEN ParseStringBody(s, i + 1, <<>>)
    ELSE IF s[i] = 48
         THEN IF i + 1 <= Len(s) /\ IsDigit(s[i+1]) THEN [ok |-> FALSE]
              ELSE [ok |-> TRUE, v |-> Num(0), pos |-> i + 1]
    ELSE IF IsDigit(s[i]) THEN ParseDigits(s, i, 0)
    ELSE IF i + 3 <= Len(s) /\ SubSeq(s, i, i + 3) = <<110, 117, 108, 108>>
         THEN [ok |-> TRUE, v |-> Null, pos |-> i + 4]
         ELSE [ok |-> FALSE]

RECURSIVE ParseMembers(_, _, _)
\* members of an object from s[i..], up to and including the closing brace
ParseMembers(s, i, acc) ==
    IF i > Len(s) \/ s[i] # QUOTE THEN [ok |-> FALSE]
    ELSE LET key == ParseStringBody(s, i + 1, <<>>) IN
         IF ~key.ok THEN key
         ELSE IF key.pos > Len(s) \/ s[key.pos] # 58 THEN [ok |-> FALSE]
         ELSE LET val == ParseScalar(s, key.pos + 1) IN
              IF ~val.ok THEN val
              ELSE LET acc2 == Append(acc, [k |-> key.v.v, v |-> val.v]) IN
                   IF val.pos > Len(s) THEN [ok |-> FALSE]
                   ELSE IF s[val.pos] = 125
                        THEN [ok |-> TRUE, v |-> Obj(acc2), pos |-> val.pos + 1]
                   ELSE IF s[val.pos] = 44 THEN ParseMembers(s, val.pos + 1, acc2)
                   ELSE [ok |-> FALSE]

\* JSON.parse on the fragment: no whitespace, a scalar or a flat object of scalars
JSONParse(s) ==
    LET r == IF Len(s) >= 2 /\ s[1] = 123
             THEN IF s[2] = 125 THEN [ok |-> TRUE, v |-> Obj(<<>>), pos |-> 3]
                  ELSE ParseMembers(s, 2, <<>>)
             ELSE ParseScalar(s, 1)
    IN IF r.ok /\ r.pos = Len(s) + 1 THEN Ret(r.v) ELSE Throw("SyntaxError")

RECURSIVE GetFrom(_, _, _)
GetFrom(m, key, i) ==
    IF i = 0 THEN Undefined
    ELSE IF m[i].k = key THEN m[i].v ELSE GetFrom(m, key, i - 1)

\* x[key] of a non-null value: undefined unless x is an object with that member
\* (a repeated key keeps its last value)
Get(x, key) == IF x.t = "obj" THEN GetFrom(x.m, key, Len(x.m)) ELSE Undefined

Has(x, key) == Get(x, key).t # "undefined"

\* x < n for a number n: undefined and a non-numeric string compare as NaN
JSLess(x, n) ==
    IF x.t = "num" THEN x.v < n
    ELSE IF x.t = "null" THEN 0 < n
    ELSE IF x.t = "str" /\ \A i \in 1..Len(x.v) : IsDigit(x.v[i])
         THEN ParseDigits(x.v, 1, 0).v.v < n
         ELSE FALSE

\* ── JWT ───────────────────────────────────────────────────────────────────
\* the property names of JwtPayload, and of the header
K_sub == <<115, 117, 98>>

K_email == <<101, 109, 97, 105, 108>>

K_iat == <<105, 97, 116>>

K_exp == <<101, 120, 112>>

\* { alg: "HS256", typ: "JWT" }
JwtHeader ==
    Obj(<<[k |-> <<97, 108, 103>>, v |-> Str(<<72, 83, 50, 53, 54>>)],
          [k |-> <<116, 121, 112>>, v |-> Str(<<74, 87, 84>>)]>>)

\* the payload with the values of iat and exp exchanged
JwtPayload_Swapped(sub, email, iat, exp) ==
    Obj(<<[k |-> K_sub, v |-> Num(sub)], [k |-> K_email, v |-> Str(email)],
          [k |-> K_iat, v |-> Num(exp)], [k |-> K_exp, v |-> Num(iat)]>>)

JwtPayload(sub, email, iat, exp) ==
    Obj(<<[k |-> K_sub, v |-> Num(sub)], [k |-> K_email, v |-> Str(email)],
          [k |-> K_iat, v |-> Num(iat)], [k |-> K_exp, v |-> Num(exp)]>>)

\* getSigningKey importing a fixed key whatever the secret
getSigningKey_Fixed(secret) == Ret(<<107, 49>>)

\* crypto.subtle.importKey("raw", encode(secret), HMAC, ...): the key bytes
getSigningKey(secret) == Ret(TextEncode(secret))

\* getSigningKey on the runtime subtle
getSigningKeyWith(subtle, secret) ==
    IF "importKey" \in subtle THEN OperationError ELSE getSigningKey(secret)

\* crypto.subtle.sign("HMAC", key, data) on the runtime subtle
sign(subtle, keyBytes, data) ==
    IF "sign" \in subtle THEN OperationError ELSE Ret(HMAC(keyBytes, data))

\* crypto.subtle.verify("HMAC", key, signature, data) on the runtime subtle
verify(subtle, keyBytes, signature, data) ==
    IF "verify" \in subtle THEN OperationError
    ELSE Ret(HMAC(keyBytes, data) = signature)

\* createToken on the runtime subtle at clock value clock (unix seconds)
createTokenWith(subtle, userId, email, secret, clock) ==
    LET header == base64UrlEncode(JSONStringify(JwtHeader))
        payload == base64UrlEncode(JSONStringify(
                       JwtPayload(userId, email, clock,
                                  clock + JWT_EXPIRATION_SECONDS)))
        key == getSigningKeyWith(subtle, secret)
    IN IF ~header.ok THEN header
       ELSE IF ~payload.ok THEN payload
       ELSE IF ~key.ok THEN key
       ELSE LET signingInput == header.v \o <<DOT>> \o payload.v
                signature == sign(subtle, key.v, TextEncode(signingInput))
            IN IF ~signature.ok THEN signature
               ELSE Ret(signingInput \o <<DOT>>
                            \o base64UrlEncode(signature.v).v)

\* createToken on a usable runtime
createToken(userId, email, secret, clock) ==
    createTokenWith(Usable, userId, email, secret, clock)

\* the expiry test comparing the clock with iat
IsExpired_AfterIat(decoded, clock) == JSLess(Get(decoded, K_iat), clock)

\* the expiry test of verifyToken: TRUE when the token is refused as expired
IsExpired(decoded, clock) == JSLess(Get(decoded, K_exp), clock)

\* verifyToken without the test of isValid
verifyToken_NoSignatureTest(token, secret, clock) ==
    LET parts == Split(token, DOT) IN
    IF Len(parts) # 3 THEN Ret(Null)
    ELSE LET key == getSigningKey(secret)
             signatureBytes == base64UrlDecode(parts[3])
             text == base64UrlDecode(parts[2])
         IN IF ~key.ok \/ ~signatureBytes.ok \/ ~text.ok THEN Ret(Null)
            ELSE LET decoded == JSONParse(text.v) IN
                 IF ~decoded.ok THEN Ret(Null)
                 ELSE IF decoded.v.t = "null" THEN Ret(Null)
                 ELSE IF IsExpired(decoded.v, clock) THEN Ret(Null)
                 ELSE Ret(decoded.v)

\* verifyToken on the runtime subtle at clock value clock; every exception
\* inside the try block becomes null
verifyTokenWith(subtle, token, secret, clock) ==
    LET parts == Split(token, DOT) IN
    IF Len(parts) # 3 THEN Ret(Null)
    ELSE LET header == parts[1]
             payload == parts[2]
             signature == parts[3]
             signingInput == header \o <<DOT>> \o payload
             key == getSigningKeyWith(subtle, secret)
             signatureBytes == base64UrlDecode(signature)
         IN IF ~key.ok THEN Ret(Null)
            ELSE IF ~signatureBytes.ok THEN Ret(Null)
            ELSE LET isValid == verify(subtle, key.v, signatureBytes.v,
                                       TextEncode(signingInput)) IN
            IF ~isValid.ok THEN Ret(Null)
            ELSE IF ~isValid.v THEN Ret(Null)
            ELSE LET text == base64UrlDecode(payload) IN
                 IF ~text.ok THEN Ret(Null)
                 ELSE LET decoded == JSONParse(text.v) IN
                      IF ~decoded.ok THEN Ret(Null)
                      ELSE IF decoded.v.t = "null" THEN Ret(Null)
                      ELSE IF IsExpired(decoded.v, clock) THEN Ret(Null)
                      ELSE Ret(decoded.v)

\* verifyToken consulting the users table: the token of a user without a row
\* is refused
verifyToken_RequiresRow(token, secret, clock) ==
    LET r == verifyTokenWith(Usable, token, secret, clock) IN
    IF r.v # Null /\ ~\E u \in db.users : Num(u.id) = Get(r.v, K_sub)
    THEN Ret(Null)
    ELSE r

\* verifyToken refusing a token whose header does not declare alg HS256
verifyToken_ChecksAlg(token, secret, clock) ==
    LET header == base64UrlDecode(Split(token, DOT)[1]) IN
    IF /\ header.ok
       /\ JSONParse(header.v).ok
       /\ Get(JSONParse(header.v).v, <<97, 108, 103>>) = Str(<<72, 83, 50, 53, 54>>)
    THEN verifyTokenWith(Usable, token, secret, clock)
    ELSE Ret(Null)

\* verifyToken on a usable runtime
verifyToken(token, secret, clock) ==
    verifyTokenWith(Usable, token, secret, clock)

\* the processing verifyToken performs on token after the split, in order:
\* nothing when the split does not give three parts; otherwise the key
\* import and the decoding of the signature, then the signature test, then
\* the decoding and parsing of the payload, then the expiry test
verifyTokenSteps(token, secret, clock) ==
    LET parts == Split(token, DOT) IN
    IF Len(parts) # 3 THEN <<>>
    ELSE LET key == getSigningKey(secret)
             signatureBytes == base64UrlDecode(parts[3])
             text == base64UrlDecode(parts[2])
         IN IF ~key.ok THEN <<"importKey">>
            ELSE IF ~signatureBytes.ok THEN <<"importKey", "decodeSignature">>
            ELSE IF HMAC(key.v, TextEncode(parts[1] \o <<DOT>> \o parts[2]))
                        # signatureBytes.v
                 THEN <<"importKey", "decodeSignature", "verify">>
            ELSE IF ~text.ok
                 THEN <<"importKey", "decodeSignature", "verify", "decodePayload">>
            ELSE IF ~JSONParse(text.v).ok
                 THEN <<"importKey", "decodeSignature", "verify", "decodePayload",
                        "parse">>
            ELSE <<"importKey", "decodeSignature", "verify", "decodePayload",
                   "parse", "expiry">>

\* ── HTTP errors and responses ─────────────────────────────────────────────
\* throw new HTTPException(status, { message })
ThrowHttp(status, message) ==
    [ok |-> FALSE, err |-> "HTTPException", status |-> Num(status),
     message |-> message]

\* throw new UnauthorizedError(message)
UnauthorizedError(message) == ThrowHttp(401, message)

STATUS_TO_ERROR_CODE(status) ==
    IF status = 400 THEN "BAD_REQUEST"
    ELSE IF status = 401 THEN "UNAUTHORIZED"
    ELSE IF status = 403 THEN "FORBIDDEN"
    ELSE IF status = 404 THEN "NOT_FOUND"
    ELSE IF status = 409 THEN "CONFLICT"
    ELSE "INTERNAL_ERROR"

\* app.onError answering an unknown error with the error's own message
onError_OwnMessage(r) ==
    IF "status" \in DOMAIN r /\ r.status.t = "num"
    THEN [status |-> r.status.v,
          body |-> [success |-> FALSE,
                    error |-> [code |-> STATUS_TO_ERROR_CODE(r.status.v),
                               message |-> r.message]]]
    ELSE [status |-> 500,
          body |-> [success |-> FALSE,
                    error |-> [code |-> "INTERNAL_ERROR",
                               message |-> IF "message" \in DOMAIN r THEN r.message
                                           ELSE "Internal server error"]]]

\* app.onError for the thrown outcome r: "status" in err and
\* typeof err.status === "number"
onError(r) ==
    IF "status" \in DOMAIN r /\ r.status.t = "num"
    THEN [status |-> r.status.v,
          body |-> [success |-> FALSE,
                    error |-> [code |-> STATUS_TO_ERROR_CODE(r.status.v),
                               message |-> r.message]]]
    ELSE [status |-> 500,
          body |-> [success |-> FALSE,
                    error |-> [code |-> "INTERNAL_ERROR",
                               message |-> "Internal server error"]]]

\* success(c, data)
success(data) == [status |-> 200, body |-> [success |-> TRUE, data |-> data]]

\* ── pagination ────────────────────────────────────────────────────────────
\* Math.ceil(a / b) for integers a >= 0 and b >= 1: the quotient of two such
\* numbers is computed closely enough that its ceiling is the exact one
MathCeilOfQuotient(a, b) == IF a % b = 0 THEN a \div b ELSE (a \div b) + 1

\* buildPaginationMeta with Math.floor in place of Math.ceil
buildPaginationMeta_Floor(total, page, pageSize) ==
    [total |-> total, page |-> page, pageSize |-> pageSize,
     totalPages |-> total \div pageSize]

\* buildPaginationMeta(total, page, pageSize)
buildPaginationMeta(total, page, pageSize) ==
    [total |-> total, page |-> page, pageSize |-> pageSize,
     totalPages |-> MathCeilOfQuotient(total, pageSize)]

\* ── request validation (LoginSchema) ──────────────────────────────────────
IsAlpha(c) == (c >= 65 /\ c <= 90) \/ (c >= 97 /\ c <= 122)

IsAlnum(c) == IsAlpha(c) \/ IsDigit(c)

\* z.email(): a local part of letters, digits and _ ' + - . that neither
\* starts with '.' nor ends with ' or '.', one '@', then labels of letters,
\* digits and '-' that start with a letter or digit, and a final label of
\* two or more letters; no ".." anywhere
IsEmail(s) ==
    LET ats == {i \in 1..Len(s) : s[i] = 64} IN
    /\ Cardinality(ats) = 1
    /\ LET a == CHOOSE i \in ats : TRUE
           labels == Split(SubSeq(s, a + 1, Len(s)), DOT)
       IN /\ a > 1
          /\ s[1] # DOT
          /\ \A i \in 1..(Len(s) - 1) : ~(s[i] = DOT /\ s[i + 1] = DOT)
          /\ \A i \in 1..(a - 1) : IsAlnum(s[i]) \/ s[i] \in {95, 39, PLUS, MINUS, DOT}
          /\ IsAlnum(s[a - 1]) \/ s[a - 1] \in {95, PLUS, MINUS}
          /\ Len(labels) >= 2
          /\ \A k \in 1..(Len(labels) - 1) :
                /\ Len(labels[k]) > 0
                /\ IsAlnum(labels[k][1])
                /\ \A i \in 1..Len(labels[k]) :
                      IsAlnum(labels[k][i]) \/ labels[k][i] = MINUS
          /\ Len(labels[Len(labels)]) >= 2
          /\ \A i \in 1..Len(labels[Len(labels)]) : IsAlpha(labels[Len(labels)][i])

\* LoginSchema accepting any string as the password
LoginSchema_AnyPassword(body) ==
    (IF body.email # Undefined /\ IsEmail(body.email.v) THEN <<>>
     ELSE <<[field |-> "email", message |-> "Invalid email address"]>>)
    \o (IF body.password # Undefined THEN <<>>
        ELSE <<[field |-> "password",
                message |-> "Invalid input: expected string, received undefined"]>>)

\* the issues LoginSchema reports for a JSON body whose email and password
\* are each a string Str(text) or absent (Undefined); the length of a string
\* is its number of UTF-16 code units
LoginSchema(body) ==
    (IF body.email # Undefined /\ IsEmail(body.email.v) THEN <<>>
     ELSE <<[field |-> "email", message |-> "Invalid email address"]>>)
    \o (IF body.password = Undefined
        THEN <<[field |-> "password",
                message |-> "Invalid input: expected string, received undefined"]>>
        ELSE IF Len(body.password.v) >= 8 THEN <<>>
        ELSE <<[field |-> "password",
                message |-> "Password must be at least 8 characters"]>>)

\* the response of validate("json", LoginSchema) to a body with issues
validate(issues) ==
    [status |-> 400,
     body |-> [success |-> FALSE,
               error |-> [code |-> "VALIDATION_ERROR",
                          message |-> "Invalid input data",
                          details |-> issues]]]

\* ── services and middleware ───────────────────────────────────────────────
\* the requests the worker may be serving at the same time
ReqIds == {1, 2}

\* the lookup keeping its result in a variable shared by all requests: while
\* another login holds a row, that row is what the lookup returns
SelectByEmail_Shared(rows, email) ==
    IF \E j \in ReqIds : inflight[j].kind = "login"
                             /\ inflight[j].pc \in {"verifyPassword", "createToken"}
    THEN inflight[CHOOSE j \in ReqIds :
                      inflight[j].kind = "login"
                          /\ inflight[j].pc \in {"verifyPassword", "createToken"}].local
    ELSE IF \E u \in rows : u.email = email
    THEN CHOOSE u \in rows : u.email = email
    ELSE Undefined

\* db.select(...).from(users).where(eq(users.email, email)).get()
SelectByEmail(rows, email) ==
    IF \E u \in rows : u.email = email
    THEN CHOOSE u \in rows : u.email = email
    ELSE Undefined

\* db.select(...).from(users).where(eq(users.id, userId)).get(), for the
\* value userId the middleware stored
SelectById(rows, userId) ==
    IF \E u \in rows : Num(u.id) = userId
    THEN CHOOSE u \in rows : Num(u.id) = userId
    ELSE Undefined

\* login issuing the token without testing isValid
login_NoPasswordTest(input, rows, jwtSecret, clock) ==
    LET user == SelectByEmail(rows, input.email) IN
    IF user = Undefined
    THEN [outcome |-> UnauthorizedError("Invalid credentials"),
          calls |-> <<"select">>]
    ELSE LET token == createToken(user.id, user.email, jwtSecret, clock) IN
         [outcome |->
              IF ~token.ok THEN token
              ELSE Ret([token |-> token.v,
                        user |-> [id |-> user.id, email |-> user.email,
                                  name |-> user.name]]),
          calls |-> <<"select", "verifyPassword", "createToken">>]

\* login(input, db, jwtSecret) at clock value clock: its outcome, and the
\* operations it called, in order
login(input, rows, jwtSecret, clock) ==
    LET user == SelectByEmail(rows, input.email) IN
    IF user = Undefined
    THEN [outcome |-> UnauthorizedError("Invalid credentials"),
          calls |-> <<"select">>]
    ELSE LET isValid == verifyPassword(input.password, user.passwordHash) IN
         IF ~isValid.ok
         THEN [outcome |-> isValid, calls |-> <<"select", "verifyPassword">>]
         ELSE IF ~isValid.v
         THEN [outcome |-> UnauthorizedError("Invalid credentials"),
               calls |-> <<"select", "verifyPassword">>]
         ELSE LET token == createToken(user.id, user.email, jwtSecret, clock) IN
              [outcome |->
                   IF ~token.ok THEN token
                   ELSE Ret([token |-> token.v,
                             user |-> [id |-> user.id, email |-> user.email,
                                       name |-> user.name]]),
               calls |-> <<"select", "verifyPassword", "createToken">>]

\* getMe returning whichever row the table holds
getMe_AnyRow(userId, rows) ==
    IF rows = {} THEN UnauthorizedError("User not found")
    ELSE LET user == CHOOSE u \in rows : \A w \in rows : u.id >= w.id IN
         Ret([id |-> user.id, email |-> user.email, name |-> user.name,
              createdAt |-> user.createdAt])

\* getMe(userId, db)
getMe(userId, rows) ==
    LET user == SelectById(rows, userId) IN
    IF user = Undefined THEN UnauthorizedError("User not found")
    ELSE Ret([id |-> user.id, email |-> user.email, name |-> user.name,
              createdAt |-> user.createdAt])

\* "Bearer "
BearerPrefix == <<66, 101, 97, 114, 101, 114, 32>>

\* startsWith answering true for every string
StartsWith_Always(s, prefix) == TRUE

\* s.startsWith(prefix)
StartsWith(s, prefix) ==
    Len(s) >= Len(prefix) /\ SubSeq(s, 1, Len(prefix)) = prefix

\* !payload for a parsed JSON value
Falsy(x) == x = Null \/ x = Num(0) \/ x = Str(<<>>)

\* authMiddleware calling next whatever verifyToken returned
authMiddleware_NoPayloadTest(authHeader, secret, clock) ==
    IF authHeader = Undefined \/ ~StartsWith(authHeader.v, BearerPrefix)
    THEN [outcome |-> UnauthorizedError("Missing or invalid authorization header"),
          verifyCalled |-> FALSE, next |-> FALSE]
    ELSE LET token == SubSeq(authHeader.v, 8, Len(authHeader.v))
             payload == verifyToken(token, secret, clock).v
         IN [outcome |-> Ret([userId |-> IF payload = Null THEN Undefined
                                         ELSE Get(payload, K_sub),
                              userEmail |-> IF payload = Null THEN Undefined
                                            ELSE Get(payload, K_email)]),
             verifyCalled |-> TRUE, token |-> token, verified |-> Ret(payload),
             next |-> TRUE]

\* authMiddleware for the Authorization header authHeader (Str(text), or
\* Undefined when absent): its outcome, the token it handed to verifyToken and what
\* verifyToken returned, and whether it called next
authMiddleware(authHeader, secret, clock) ==
    IF authHeader = Undefined \/ ~StartsWith(authHeader.v, BearerPrefix)
    THEN [outcome |-> UnauthorizedError("Missing or invalid authorization header"),
          verifyCalled |-> FALSE, next |-> FALSE]
    ELSE LET token == SubSeq(authHeader.v, 8, Len(authHeader.v))
             payload == verifyToken(token, secret, clock).v
         IN IF Falsy(payload)
            THEN [outcome |-> UnauthorizedError("Invalid or expired token"),
                  verifyCalled |-> TRUE, token |-> token,
                  verified |-> Ret(payload), next |-> FALSE]
            ELSE [outcome |-> Ret([userId |-> Get(payload, K_sub),
                                   userEmail |-> Get(payload, K_email)]),
                  verifyCalled |-> TRUE, token |-> token,
                  verified |-> Ret(payload), next |-> TRUE]

\* ── bounds and input domains ──────────────────────────────────────────────
\* the clock is observed around whole multiples of the token lifetime
MaxDays == 1

\* number of distinct salts crypto.getRandomValues may draw
NumSalts == 2

ClockValues ==
    {d * JWT_EXPIRATION_SECONDS + j : d \in 0..MaxDays, j \in {-1, 0, 1}} \cap Nat

\* "k1" and "k2"
Secret1 == <<107, 49>>

Secret2 == <<107, 50>>

Secrets == {Secret1, Secret2}

\* (userId, email, secret) triples createToken is called with: a plain
\* address, one with '"', '\' and a Latin-1 letter, and one with a letter
\* above U+00FF
IssueInputs ==
    { [id |-> 1, email |-> <<97, 64, 98>>, secret |-> Secret1],
      [id |-> 42, email |-> <<34, 92, 233, 64, 99>>, secret |-> Secret2],
      [id |-> 7, email |-> <<322, 64, 120>>, secret |-> Secret1] }

\* "", "pw", "px", "pé"
Passwords == {<<>>, <<112, 119>>, <<112, 120>>, <<112, 233>>}

SaltOf(k) == [i \in 1..SALT_LENGTH |-> (k * 37 + i * 11) % 256]

Salts == {SaltOf(k) : k \in 1..NumSalts}

\* ── tokens presented to verifyToken ───────────────────────────────────────
\* the three segments joined with '.'
Join3(h, p, s) == h \o <<DOT>> \o p \o <<DOT>> \o s

\* base64url character of index k
UrlChar(k) == IF k = 62 THEN MINUS ELSE IF k = 63 THEN UNDERSCORE ELSE B64Char(k)

UrlIndex(c) == IF c = MINUS THEN 62 ELSE IF c = UNDERSCORE THEN 63 ELSE B64Index(c)

\* s with its character at position i replaced by the base64url character
\* whose index is k further on (mod 64)
Bump(s, i, k) == [s EXCEPT ![i] = UrlChar((UrlIndex(s[i]) + k) % 64)]

\* the JSON text of a payload naming another subject
OtherPayloadSeg ==
    base64UrlEncode(JSONStringify(
        JwtPayload(999, <<120>>, 0, 5 * JWT_EXPIRATION_SECONDS))).v

\* the header {"alg":"none","typ":"JWT"}
NoneHeaderSeg ==
    base64UrlEncode(JSONStringify(
        Obj(<<[k |-> <<97, 108, 103>>, v |-> Str(<<110, 111, 110, 101>>)],
              [k |-> <<116, 121, 112>>, v |-> Str(<<74, 87, 84>>)]>>))).v

\* tokens obtained from token tk by replacing one segment
Tampered(tk) ==
    LET parts == Split(tk, DOT)
        h == parts[1]
        p == parts[2]
        s == parts[3]
    IN { Join3(h, p, Bump(s, Len(s), 1)),
         Join3(h, p, s \o <<EQUALS>>),
         Join3(h, p, Bump(s, 1, 1)),
         Join3(h, p, SubSeq(s, 1, Len(s) - 1)),
         Join3(h, p, <<>>),
         Join3(h, p, s \o <<33>>),
         Join3(NoneHeaderSeg, p, s),
         Join3(h \o <<EQUALS>>, p, s),
         Join3(h, OtherPayloadSeg, s),
         Join3(h, p \o <<EQUALS>>, s) }

\* the token a holder of secret makes by signing payload segment p
SignedToken(p, secret) ==
    LET h == base64UrlEncode(JSONStringify(JwtHeader)).v
        signingInput == h \o <<DOT>> \o p
    IN signingInput \o <<DOT>>
           \o base64UrlEncode(HMAC(TextEncode(secret), TextEncode(signingInput))).v

\* payload texts signed outside createToken: {"sub":1,"email":"a@b","iat":0},
\* {"sub":1,"iat":0,"exp":432000}, {}, 5, null, abc
RawPayloads ==
    { JSONStringify(Obj(<<[k |-> K_sub, v |-> Num(1)],
                          [k |-> K_email, v |-> Str(<<97, 64, 98>>)],
                          [k |-> K_iat, v |-> Num(0)]>>)),
      JSONStringify(Obj(<<[k |-> K_sub, v |-> Num(1)],
                          [k |-> K_iat, v |-> Num(0)],
                          [k |-> K_exp, v |-> Num(5 * JWT_EXPIRATION_SECONDS)]>>)),
      <<123, 125>>, <<53>>, <<110, 117, 108, 108>>, <<97, 98, 99>> }

\* correctly signed tokens whose payload segment is one of the raw payloads,
\* or is not base64 at all ("!!!")
SignedRaw ==
    {SignedToken(base64UrlEncode(t).v, Secret1) : t \in RawPayloads}
        \cup {SignedToken(<<33, 33, 33>>, Secret1)}

\* header segments other than the one createToken writes: the header
\* {"alg":"none","typ":"JWT"}, an empty segment, "!!" (not base64) and the
\* encoding of "abc" (not JSON)
OtherHeaderSegs ==
    { NoneHeaderSeg, <<>>, <<33, 33>>, base64UrlEncode(<<97, 98, 99>>).v }

\* the token a holder of secret makes by signing header segment h and payload
\* segment p
SignedWithHeader(h, p, secret) ==
    LET signingInput == h \o <<DOT>> \o p IN
    signingInput \o <<DOT>>
        \o base64UrlEncode(HMAC(TextEncode(secret), TextEncode(signingInput))).v

\* correctly signed tokens with those headers and a payload that expires
\* after every clock value
SignedHeaders ==
    {SignedWithHeader(h, OtherPayloadSeg, Secret1) : h \in OtherHeaderSegs}

\* "not.a.jwt", "", "x.y.!!"
MalformedTokens ==
    { <<110, 111, 116, 46, 97, 46, 106, 119, 116>>, <<>>,
      <<120, 46, 121, 46, 33, 33>> }

\* strings whose split on '.' has one, two, four and five parts:
\* "abc", "a.b", "a.b.c.d", "...."
WrongCountTokens ==
    { <<97, 98, 99>>, <<97, DOT, 98>>, <<97, DOT, 98, DOT, 99, DOT, 100>>,
      <<DOT, DOT, DOT, DOT>> }

\* token tk with a part added after or before it, and its first two parts alone
WrongCount(tk) ==
    { tk \o <<DOT>>, tk \o <<DOT, 120>>, <<120, DOT>> \o tk,
      SubSeq(tk, 1, CHOOSE i \in 1..Len(tk) :
                        /\ tk[i] = DOT
                        /\ \A j \in (i + 1)..Len(tk) : tk[j] # DOT) }

NoToken ==
    [set |-> FALSE, token |-> <<>>, sub |-> 0, email |-> <<>>,
     secret |-> <<>>, iat |-> 0]

NoCred == [set |-> FALSE, password |-> <<>>, salt |-> <<>>, stored |-> <<>>]

NoCall == [op |-> "none"]

TokenInputs ==
    (IF issued.set
     THEN {issued.token} \cup Tampered(issued.token) \cup WrongCount(issued.token)
     ELSE {})
        \cup SignedRaw \cup SignedHeaders \cup MalformedTokens \cup WrongCountTokens

\* ── stored strings presented to verifyPassword ────────────────────────────
\* strings obtained from a stored credential st = salt "." hash
StoredVariants(st) ==
    LET parts == Split(st, DOT)
        salt == parts[1]
        hash == parts[2]
    IN { st,
         st \o <<DOT, 120>>,
         st \o <<DOT>>,
         <<DOT>> \o st,
         salt \o <<DOT>>,
         salt,
         salt \o <<DOT>> \o Bump(hash, 1, 1),
         salt \o <<DOT>> \o Bump(hash, Len(hash) - 1, 4),
         salt \o <<DOT>> \o SubSeq(hash, 1, Len(hash) - 4),
         salt \o <<DOT>> \o SubSeq(hash, 1, Len(hash) - 1),
         salt \o <<33, DOT>> \o hash }

\* "", "nodothere", ".", "..", "a.b", "!!!!.????", "QUJD.QUJD", "abc..def"
MalformedStored ==
    { <<>>, <<110, 111, 100, 111, 116, 104, 101, 114, 101>>, <<DOT>>,
      <<DOT, DOT>>, <<97, DOT, 98>>, <<33, 33, 33, 33, DOT, 63, 63, 63, 63>>,
      <<81, 85, 74, 68, DOT, 81, 85, 74, 68>>,
      <<97, 98, 99, DOT, DOT, 100, 101, 102>> }

StoredInputs ==
    (IF cred.set THEN StoredVariants(cred.stored) ELSE {}) \cup MalformedStored

\* unusable runtimes: one primitive raising, or all of them
UnusableRuntimes == {{op} : op \in SubtleOps} \cup {SubtleOps}

\* ── the users table and the requests ──────────────────────────────────────
\* c.env.JWT_SECRET
JWT_SECRET == Secret2

\* "a@b.co" and "c@d.eu" (the two users), "e@f.io" (a changed address)
Email1 == <<97, 64, 98, 46, 99, 111>>

Email2 == <<99, 64, 100, 46, 101, 117>>

EmailNew == <<101, 64, 102, 46, 105, 111>>

\* "password", "passw0rd"
Pw1 == <<112, 97, 115, 115, 119, 111, 114, 100>>

Pw2 == <<112, 97, 115, 115, 119, 48, 114, 100>>

\* a row of users as INSERT INTO users (email, name, password_hash) writes
\* it, the hash being one hashPassword returned
UserRow(id, email, name, password) ==
    [id |-> id, email |-> email, name |-> name,
     passwordHash |-> hashPassword(password, SaltOf(1 + (id % NumSalts))),
     createdAt |-> "2025-01-01 00:00:00"]

\* the table after seeding: two users
SeededDb ==
    [users |-> {UserRow(1, Email1, <<65>>, Pw1), UserRow(2, Email2, <<67>>, Pw2)}]

\* bodies posted to /auth/login: the two seeded credentials, a wrong
\* password, the changed address with either password (unknown until a row
\* takes it), an invalid address ("nope") and a short password ("short")
LoginInputs ==
    { [email |-> Email1, password |-> Pw1],
      [email |-> Email1, password |-> Pw2],
      [email |-> Email2, password |-> Pw2],
      [email |-> EmailNew, password |-> Pw1],
      [email |-> EmailNew, password |-> Pw2],
      [email |-> <<110, 111, 112, 101>>, password |-> Pw1],
      [email |-> Email1, password |-> <<115, 104, 111, 114, 116>>] }

\* JSON bodies posted to /auth/login: the inputs above, and bodies without
\* the password, without the email, and without both ({})
LoginBodies ==
    {[email |-> Str(i.email), password |-> Str(i.password)] : i \in LoginInputs}
        \cup { [email |-> Str(Email1), password |-> Undefined],
               [email |-> Undefined, password |-> Str(Pw1)],
               [email |-> Undefined, password |-> Undefined] }

NoHeld ==
    [set |-> FALSE, token |-> <<>>, sub |-> 0, email |-> <<>>, iat |-> 0,
     dead |-> FALSE]

\* a token signed with another secret, naming user 1
ForeignToken ==
    SignedToken(base64UrlEncode(JSONStringify(
                    JwtPayload(1, Email1, 0, 5 * JWT_EXPIRATION_SECONDS))).v,
                Secret1)

\* tokens presented to /auth/me: the held one; the held one with its payload
\* replaced, with its signature changed, and with a part added; a token
\* signed with another secret; "not.a.jwt", "x.y.!!", "a.b" and ""
PresentedTokens ==
    (IF held.set
     THEN LET parts == Split(held.token, DOT) IN
          { held.token,
            Join3(parts[1], OtherPayloadSeg, parts[3]),
            Join3(parts[1], parts[2], Bump(parts[3], 1, 1)),
            held.token \o <<DOT, 120>> }
     ELSE {})
    \cup { ForeignToken, <<110, 111, 116, 46, 97, 46, 106, 119, 116>>,
           <<120, 46, 121, 46, 33, 33>>, <<97, DOT, 98>>, <<>> }

\* Authorization headers: absent, "Basic abc", "bearer x", and "Bearer "
\* followed by a presented token
AuthHeaders ==
    { Undefined, Str(<<66, 97, 115, 105, 99, 32, 97, 98, 99>>),
      Str(<<98, 101, 97, 114, 101, 114, 32, 120>>) }
        \cup {Str(BearerPrefix \o t) : t \in PresentedTokens}

\* bodies and Authorization headers of the requests served concurrently:
\* both seeded credentials, a wrong password, an unknown address and an
\* invalid body; the tokens of both users, a token signed with another secret
\* and no header
ConcBodies ==
    {[email |-> Str(Email1), password |-> Str(Pw1)],
     [email |-> Str(Email2), password |-> Str(Pw2)],
     [email |-> Str(Email1), password |-> Str(Pw2)],
     [email |-> Str(EmailNew), password |-> Str(Pw1)],
     [email |-> Str(Email1), password |-> Undefined]}

ConcHeaders ==
    {Str(BearerPrefix \o createToken(1, Email1, JWT_SECRET, 0).v),
     Str(BearerPrefix \o createToken(2, Email2, JWT_SECRET, 0).v),
     Str(BearerPrefix \o ForeignToken),
     Undefined}

\* a request slot with no request in it
Idle ==
    [pc |-> "idle", kind |-> "none", in |-> Undefined, at |-> 0,
     local |-> Undefined, overlapped |-> FALSE, response |-> Undefined]

\* errors a middleware or handler throws: the HTTPException subclasses with
\* their default and other messages, HTTPExceptions of other statuses that a
\* response with a body may carry, errors without a status, an error whose
\* status is the string "401", and a DOMException
ErrorStatuses == {400, 401, 403, 404, 409, 500} \cup {402, 418, 422, 429, 502, 503}

ErrorMessages ==
    {"Unauthorized", "Invalid credentials", "User not found", "Bad request",
     "Forbidden", "Resource already exists", "Internal server error", "boom", ""}

ThrownErrors ==
    {ThrowHttp(st, m) : st \in ErrorStatuses, m \in ErrorMessages}
        \cup {[ok |-> FALSE, err |-> "Error", message |-> m] : m \in ErrorMessages}
        \cup {[ok |-> FALSE, err |-> "Error", status |-> Str("401"),
               message |-> "boom"],
              Throw("InvalidCharacterError")}

\* totals, page numbers and page sizes given to buildPaginationMeta
MaxTotal == 12

MaxPage == 3

MaxPageSize == 5

\* ── the state machine ─────────────────────────────────────────────────────
\* now: the clock in unix seconds; issued: the token createToken last
\* returned, with its arguments; cred: the credential hashPassword last
\* returned, with its arguments; call: the call in progress and its outcome,
\* NoCall between calls.
Init ==
    /\ now = 0
    /\ issued = NoToken
    /\ cred = NoCred
    /\ call = NoCall
    /\ db = SeededDb
    /\ held = NoHeld
    /\ inflight = [i \in ReqIds |-> Idle]

\* time passes
Tick ==
    /\ call = NoCall
    /\ \E t \in ClockValues : t > now /\ now' = t
    /\ UNCHANGED <<issued, cred, call, db, held, inflight>>

CreateToken ==
    /\ call = NoCall
    /\ \E in \in IssueInputs :
          LET r == createToken(in.id, in.email, in.secret, now) IN
          /\ call' = [op |-> "createToken", userId |-> in.id, email |-> in.email,
                      secret |-> in.secret, at |-> now, result |-> r]
          /\ issued' = IF r.ok
                       THEN [set |-> TRUE, token |-> r.v, sub |-> in.id,
                             email |-> in.email, secret |-> in.secret, iat |-> now]
                       ELSE issued
    /\ UNCHANGED <<now, cred, db, held, inflight>>

VerifyToken ==
    /\ call = NoCall
    /\ \E token \in TokenInputs, secret \in Secrets :
          call' = [op |-> "verifyToken", token |-> token, secret |-> secret,
                   at |-> now, result |-> verifyToken(token, secret, now)]
    /\ UNCHANGED <<now, issued, cred, db, held, inflight>>

HashPassword ==
    /\ call = NoCall
    /\ \E password \in Passwords, salt \in Salts :
          LET stored == hashPassword(password, salt) IN
          /\ call' = [op |-> "hashPassword", password |-> password,
                      prev |-> cred, result |-> Ret(stored)]
          /\ cred' = [set |-> TRUE, password |-> password, salt |-> salt,
                      stored |-> stored]
    /\ UNCHANGED <<now, issued, db, held, inflight>>

VerifyPassword ==
    /\ call = NoCall
    /\ \E password \in Passwords, stored \in StoredInputs :
          call' = [op |-> "verifyPassword", password |-> password,
                   stored |-> stored, result |-> verifyPassword(password, stored)]
    /\ UNCHANGED <<now, issued, cred, db, held, inflight>>

\* the four operations called on an unusable runtime
CreateTokenUnusable ==
    /\ call = NoCall
    /\ \E in \in IssueInputs, subtle \in UnusableRuntimes :
          call' = [op |-> "createToken", subtle |-> subtle, userId |-> in.id,
                   email |-> in.email, secret |-> in.secret, at |-> now,
                   result |-> createTokenWith(subtle, in.id, in.email,
                                              in.secret, now)]
    /\ UNCHANGED <<now, issued, cred, db, held, inflight>>

VerifyTokenUnusable ==
    /\ call = NoCall
    /\ \E token \in TokenInputs, secret \in Secrets, subtle \in UnusableRuntimes :
          call' = [op |-> "verifyToken", subtle |-> subtle, token |-> token,
                   secret |-> secret, at |-> now,
                   result |-> verifyTokenWith(subtle, token, secret, now)]
    /\ UNCHANGED <<now, issued, cred, db, held, inflight>>

HashPasswordUnusable ==
    /\ call = NoCall
    /\ \E password \in Passwords, salt \in Salts, subtle \in UnusableRuntimes :
          call' = [op |-> "hashPassword", subtle |-> subtle,
                   password |-> password, salt |-> salt,
                   result |-> hashPasswordWith(subtle, password, salt)]
    /\ UNCHANGED <<now, issued, cred, db, held, inflight>>

VerifyPasswordUnusable ==
    /\ call = NoCall
    /\ \E password \in Passwords, stored \in StoredInputs,
          subtle \in UnusableRuntimes :
          call' = [op |-> "verifyPassword", subtle |-> subtle,
                   password |-> password, stored |-> stored,
                   result |-> verifyPasswordWith(subtle, password, stored)]
    /\ UNCHANGED <<now, issued, cred, db, held, inflight>>

BuildPaginationMeta ==
    /\ call = NoCall
    /\ \E total \in 0..MaxTotal, page \in 0..MaxPage, pageSize \in 1..MaxPageSize :
          call' = [op |-> "buildPaginationMeta", total |-> total, page |-> page,
                   pageSize |-> pageSize,
                   result |-> buildPaginationMeta(total, page, pageSize)]
    /\ UNCHANGED <<now, issued, cred, db, held, inflight>>

\* the caller takes the outcome of the call
Return ==
    /\ call # NoCall
    /\ call' = NoCall
    /\ UNCHANGED <<now, issued, cred, db, held, inflight>>

\* POST /auth/login: validate, login, then success or the error handler; the
\* client keeps the token it held or takes the new one
Login ==
    /\ call = NoCall
    /\ \E body \in LoginBodies :
       \E issues \in {LoginSchema(body)} :
       \E input \in {IF issues = <<>>
                      THEN [email |-> body.email.v, password |-> body.password.v]
                      ELSE Undefined} :
       \E run \in {IF issues = <<>> THEN login(input, db.users, JWT_SECRET, now)
                    ELSE [outcome |-> Throw("ZodError"), calls |-> <<>>]} :
          LET ok == issues = <<>> /\ run.outcome.ok
              response == IF issues # <<>> THEN validate(issues)
                          ELSE IF run.outcome.ok THEN success(run.outcome.v)
                          ELSE onError(run.outcome)
          IN /\ call' = [op |-> "login", body |-> body, input |-> input,
                         at |-> now,
                         invoked |-> issues = <<>>,
                         calls |-> run.calls,
                         response |-> response]
             /\ \E h \in {held} \cup
                         (IF ok
                          THEN {[set |-> TRUE, token |-> run.outcome.v.token,
                                 sub |-> run.outcome.v.user.id,
                                 email |-> run.outcome.v.user.email,
                                 iat |-> now, dead |-> FALSE]}
                          ELSE {}) : held' = h
    /\ UNCHANGED <<now, issued, cred, db, inflight>>

\* GET /auth/me: authMiddleware, then the handler with getMe, then success
\* or the error handler; the client notes a refusal of the token it holds
Me ==
    /\ call = NoCall
    /\ \E header \in AuthHeaders :
       \E mw \in {authMiddleware(header, JWT_SECRET, now)} :
          LET data == getMe(mw.outcome.v.userId, db.users)
              response == IF ~mw.outcome.ok THEN onError(mw.outcome)
                          ELSE IF data.ok THEN success(data.v)
                          ELSE onError(data)
              own == held.set /\ header = Str(BearerPrefix \o held.token)
          IN /\ call' = [op |-> "me", header |-> header, at |-> now,
                         verifyCalled |-> mw.verifyCalled,
                         token |-> IF mw.verifyCalled THEN Str(mw.token)
                                   ELSE Undefined,
                         verified |-> IF mw.verifyCalled THEN mw.verified
                                      ELSE Ret(Undefined),
                         next |-> mw.next,
                         getMeArg |-> IF mw.next THEN mw.outcome.v.userId
                                      ELSE Undefined,
                         wasDead |-> own /\ held.dead,
                         response |-> response]
             /\ held' = IF own /\ mw.verifyCalled /\ mw.verified = Ret(Null)
                        THEN [held EXCEPT !.dead = TRUE]
                        ELSE held
    /\ UNCHANGED <<now, issued, cred, db, inflight>>

\* ── requests served concurrently ──────────────────────────────────────────
\* A request runs from one await to the next; between two awaits of one
\* request the other request may run.  inflight[i].overlapped records that
\* another request was being served while request i was.
Busy(j) == inflight[j].pc \notin {"idle", "done"}

\* request i moves to r while the other requests stay where they are
Step(i, r) ==
    inflight' =
        [j \in ReqIds |->
            IF j = i
            THEN [r EXCEPT !.overlapped =
                     inflight[i].overlapped \/ \E k \in ReqIds \ {i} : Busy(k)]
            ELSE IF Busy(j) THEN [inflight[j] EXCEPT !.overlapped = TRUE]
            ELSE inflight[j]]

\* the request ends with the response
Done(i, response) ==
    Step(i, [inflight[i] EXCEPT !.pc = "done", !.response = response])

\* POST /auth/login arrives: the validator runs, then the handler starts
ArriveLogin ==
    \E i \in ReqIds :
       /\ inflight[i].pc = "idle"
       /\ \E body \in ConcBodies :
          \E issues \in {LoginSchema(body)} :
             IF issues # <<>>
             THEN Step(i, [Idle EXCEPT !.pc = "done", !.kind = "login",
                                       !.in = body, !.response = validate(issues)])
             ELSE Step(i, [Idle EXCEPT !.pc = "select", !.kind = "login",
                                       !.in = body])
       /\ UNCHANGED <<now, issued, cred, call, db, held>>

\* GET /auth/me arrives: authMiddleware runs, reading the clock once, in
\* verifyToken
ArriveMe ==
    \E i \in ReqIds :
       /\ inflight[i].pc = "idle"
       /\ \E header \in ConcHeaders :
          \E mw \in {authMiddleware(header, JWT_SECRET, now)} :
             IF ~mw.next
             THEN Step(i, [Idle EXCEPT !.pc = "done", !.kind = "me", !.in = header,
                                       !.at = now,
                                       !.response = onError(mw.outcome)])
             ELSE Step(i, [Idle EXCEPT !.pc = "select", !.kind = "me",
                                       !.in = header, !.at = now,
                                       !.local = mw.outcome.v.userId])
       /\ UNCHANGED <<now, issued, cred, call, db, held>>

\* the SELECT of login (by email) or of getMe (by id)
SelectStep ==
    \E i \in ReqIds :
       /\ inflight[i].pc = "select"
       /\ IF inflight[i].kind = "login"
          THEN \E user \in {SelectByEmail(db.users, inflight[i].in.email.v)} :
                  IF user = Undefined
                  THEN Done(i, onError(UnauthorizedError("Invalid credentials")))
                  ELSE Step(i, [inflight[i] EXCEPT !.pc = "verifyPassword",
                                                   !.local = user])
          ELSE \E data \in {getMe(inflight[i].local, db.users)} :
                  Done(i, IF data.ok THEN success(data.v) ELSE onError(data))
       /\ UNCHANGED <<now, issued, cred, call, db, held>>

\* await verifyPassword(input.password, user.passwordHash) in login
VerifyPasswordStep ==
    \E i \in ReqIds :
       /\ inflight[i].pc = "verifyPassword"
       /\ \E isValid \in {verifyPassword(inflight[i].in.password.v,
                                          inflight[i].local.passwordHash)} :
             IF ~isValid.ok THEN Done(i, onError(isValid))
             ELSE IF ~isValid.v
             THEN Done(i, onError(UnauthorizedError("Invalid credentials")))
             ELSE Step(i, [inflight[i] EXCEPT !.pc = "createToken"])
       /\ UNCHANGED <<now, issued, cred, call, db, held>>

\* await createToken(user.id, user.email, jwtSecret) in login, reading the
\* clock, then the response
CreateTokenStep ==
    \E i \in ReqIds :
       /\ inflight[i].pc = "createToken"
       /\ \E user \in {inflight[i].local} :
          \E token \in {createToken(user.id, user.email, JWT_SECRET, now)} :
             Step(i, [inflight[i] EXCEPT
                        !.pc = "done", !.at = now,
                        !.response =
                            IF ~token.ok THEN onError(token)
                            ELSE success([token |-> token.v,
                                          user |-> [id |-> user.id,
                                                    email |-> user.email,
                                                    name |-> user.name]])])
       /\ UNCHANGED <<now, issued, cred, call, db, held>>

\* the response has been sent
Respond ==
    \E i \in ReqIds :
       /\ inflight[i].pc = "done"
       /\ inflight' = [inflight EXCEPT ![i] = Idle]
       /\ UNCHANGED <<now, issued, cred, call, db, held>>

\* a middleware or handler throws err and app.onError answers
HandleError ==
    /\ call = NoCall
    /\ \E err \in ThrownErrors :
          call' = [op |-> "onError", err |-> err, response |-> onError(err)]
    /\ UNCHANGED <<now, issued, cred, db, held, inflight>>

\* DELETE FROM users WHERE id = ...
DeleteUser ==
    /\ call = NoCall
    /\ \E u \in db.users : db' = [db EXCEPT !.users = @ \ {u}]
    /\ UNCHANGED <<now, issued, cred, call, held, inflight>>

\* UPDATE users SET email = 'e@f.io' WHERE id = ..., under the unique index
UpdateUser ==
    /\ call = NoCall
    /\ \A w \in db.users : w.email # EmailNew
    /\ \E u \in db.users :
          db' = [db EXCEPT !.users = (@ \ {u}) \cup {[u EXCEPT !.email = EmailNew]}]
    /\ UNCHANGED <<now, issued, cred, call, held, inflight>>

AppNext ==
    Tick \/ Login \/ Me \/ HandleError \/ DeleteUser \/ UpdateUser \/ Return

TokenNext == Tick \/ CreateToken \/ VerifyToken \/ Return

PasswordNext == HashPassword \/ VerifyPassword \/ Return

\* the token subsystem
TokenSpec == Init /\ [][TokenNext]_vars

\* the password hashing subsystem
PasswordSpec == Init /\ [][PasswordNext]_vars

\* the HTTP layer over the users table
AppSpec == Init /\ [][AppNext]_vars

\* the core operations when the runtime may be unusable
CryptoNext ==
    \/ CreateToken \/ HashPassword
    \/ CreateTokenUnusable \/ VerifyTokenUnusable
    \/ HashPasswordUnusable \/ VerifyPasswordUnusable
    \/ Return

CryptoSpec == Init /\ [][CryptoNext]_vars

PaginationNext == BuildPaginationMeta \/ Return

PaginationSpec == Init /\ [][PaginationNext]_vars

\* two requests served concurrently
ConcNext ==
    \/ Tick \/ ArriveLogin \/ ArriveMe \/ SelectStep \/ VerifyPasswordStep
    \/ CreateTokenStep \/ Respond

ConcSpec == Init /\ [][ConcNext]_vars

\* ── properties ────────────────────────────────────────────────────────────
\* the payload and the expiry carried by the issued token
IssuedPayload ==
    JSONParse(base64UrlDecode(Split(issued.token, DOT)[2]).v).v

IssuedExp == Get(IssuedPayload, K_exp).v

\* verifyToken is called on the issued token with the secret it was issued with
OwnVerify ==
    /\ call.op = "verifyToken"
    /\ issued.set
    /\ call.token = issued.token
    /\ call.secret = issued.secret

\* C1: for every issued token with expiry exp, verifyToken returns the payload
\* only while the clock is strictly before exp; at every clock value from exp
\* on, exp itself included, it returns null.
C1_StrictExpiry ==
    OwnVerify =>
        IF call.at < IssuedExp
        THEN call.result = Ret(IssuedPayload)
        ELSE call.result = Ret(Null)

\* verifyPassword is called on the stored credential as hashPassword returned it
OwnCredential ==
    /\ call.op = "verifyPassword"
    /\ cred.set
    /\ call.stored = cred.stored

\* C2: for every password p, the empty one included, and every salt drawn,
\* verifyPassword(p, hashPassword(p)) returns true.
C2_HashThenVerify ==
    (OwnCredential /\ call.password = cred.password) => call.result = Ret(TRUE)

C2_Witness ==
    /\ OwnCredential
    /\ call.password = cred.password
    /\ cred.password = <<>>
    /\ call.result = Ret(TRUE)

\* a payload object with the given subject and email and iat < exp
PayloadMatches(p, sub, email) ==
    /\ p.t = "obj"
    /\ Get(p, K_sub) = Num(sub)
    /\ Get(p, K_email) = Str(email)
    /\ Has(p, K_iat) /\ Has(p, K_exp)
    /\ Get(p, K_iat).v < Get(p, K_exp).v

\* C3: for every (userId, email, secret), createToken returns a token, and
\* verifyToken of that token with the same secret before its exp returns a
\* payload with sub = userId, email = email and iat < exp.
C3_RoundTrip ==
    /\ call.op = "createToken" =>
          /\ call.result.ok
          /\ PayloadMatches(verifyToken(call.result.v, call.secret, call.at).v,
                            call.userId, call.email)
    /\ (OwnVerify /\ call.at < IssuedExp) =>
          PayloadMatches(call.result.v, issued.sub, issued.email)

\* C4: a token issued with one secret is refused (null) under every other
\* secret, at any clock value.
C4_WrongSecret ==
    (/\ call.op = "verifyToken"
     /\ issued.set
     /\ call.token = issued.token
     /\ call.secret # issued.secret) => call.result = Ret(Null)

C4_Witness ==
    /\ call.op = "verifyToken"
    /\ issued.set
    /\ call.token = issued.token
    /\ call.secret = Secret2
    /\ issued.secret = Secret1
    /\ call.at < IssuedExp
    /\ call.result = Ret(Null)

\* the segments of a three-segment token
Segs(t) == Split(t, DOT)

\* t is the issued token with exactly its k-th segment replaced
SegmentReplaced(t, k) ==
    /\ issued.set
    /\ Len(Segs(t)) = 3
    /\ \A j \in 1..3 : (Segs(t)[j] = Segs(issued.token)[j]) <=> (j # k)

\* the signature segment of t decodes to the signature bytes of the issued token
SameSignatureBytes(t) ==
    /\ base64UrlDecode(Segs(t)[3]).ok
    /\ base64UrlDecode(Segs(t)[3]).v = base64UrlDecode(Segs(issued.token)[3]).v

\* token was signed with secret by its holder: by createToken, or directly
HolderSigned(token, secret) ==
    \/ issued.set /\ token = issued.token /\ secret = issued.secret
    \/ token \in (SignedRaw \cup SignedHeaders) /\ secret = Secret1

\* a payload is returned for an unsigned token only if it is the issued one
NoForgedPayload ==
    (/\ call.op = "verifyToken"
     /\ ~HolderSigned(call.token, call.secret)
     /\ call.result # Ret(Null)) =>
        /\ issued.set
        /\ call.secret = issued.secret
        /\ call.result.v.t = "obj"
        /\ Get(call.result.v, K_sub) = Num(issued.sub)
        /\ Get(call.result.v, K_email) = Str(issued.email)
        /\ Get(call.result.v, K_exp) = Num(IssuedExp)

\* C5 as stated: replacing the header, the payload or the signature segment
\* of an issued token by a different value makes verifyToken return null, and
\* no payload differing from the issued one is returned for an unsigned token.
C5_AnySegmentReplaced ==
    /\ (/\ call.op = "verifyToken"
        /\ call.secret = issued.secret
        /\ \E k \in 1..3 : SegmentReplaced(call.token, k)) =>
           call.result = Ret(Null)
    /\ NoForgedPayload

\* C5: replacing the header or the payload segment of an issued token by a
\* different value, or its signature segment by a text that does not decode
\* to the issued signature bytes, makes verifyToken return null; no payload
\* differing from the issued one is returned for an unsigned token.
C5_TamperRejected ==
    /\ (/\ call.op = "verifyToken"
        /\ call.secret = issued.secret
        /\ \/ SegmentReplaced(call.token, 1)
           \/ SegmentReplaced(call.token, 2)
           \/ SegmentReplaced(call.token, 3) /\ ~SameSignatureBytes(call.token)) =>
           call.result = Ret(Null)
    /\ NoForgedPayload

C5_Witness ==
    /\ call.op = "verifyToken"
    /\ call.secret = issued.secret
    /\ SegmentReplaced(call.token, 2)
    /\ call.at < IssuedExp
    /\ call.result = Ret(Null)

\* C6: for passwords p1 # p2 and every salt, verifyPassword(p2,
\* hashPassword(p1)) returns false.
C6_WrongPassword ==
    (OwnCredential /\ call.password # cred.password) => call.result = Ret(FALSE)

C6_Witness ==
    /\ OwnCredential
    /\ call.password # cred.password
    /\ call.result = Ret(FALSE)

\* the text of a segment as verifyToken decodes it, or a failure
SegmentDecodes(seg) == base64UrlDecode(seg).ok

PayloadIsJSON(seg) == SegmentDecodes(seg) /\ JSONParse(base64UrlDecode(seg).v).ok

HasAllFields(p) ==
    p.t = "obj" /\ Has(p, K_sub) /\ Has(p, K_email) /\ Has(p, K_iat) /\ Has(p, K_exp)

\* C7: verifyToken returns null for every three-segment token whose signature
\* or payload segment cannot be decoded or whose payload is not JSON, and
\* returns a payload only if it carries sub, email, iat and exp.
C7_DecodeFailureInvalid ==
    call.op = "verifyToken" =>
        /\ (/\ Len(Segs(call.token)) = 3
            /\ \/ ~SegmentDecodes(Segs(call.token)[3])
               \/ ~PayloadIsJSON(Segs(call.token)[2])) => call.result = Ret(Null)
        /\ call.result # Ret(Null) => HasAllFields(call.result.v)

\* the split of s on '.' yields exactly two non-empty parts
TwoNonEmptyParts(s) ==
    /\ Len(Split(s, DOT)) = 2
    /\ Len(Split(s, DOT)[1]) > 0
    /\ Len(Split(s, DOT)[2]) > 0

\* C8: verifyPassword returns false for every stored string whose split on
\* '.' does not yield exactly two non-empty parts, three or more parts
\* included.
C8_ExactlyTwoParts ==
    (call.op = "verifyPassword" /\ ~TwoNonEmptyParts(call.stored)) =>
        call.result = Ret(FALSE)

\* C9: verifyPassword never raises; it returns a boolean for every password
\* and every stored string.
C9_NeverRaises ==
    call.op = "verifyPassword" => (call.result.ok /\ call.result.v \in BOOLEAN)

NoDot(s) == \A i \in 1..Len(s) : s[i] # DOT

\* the part of s before its first '.' is empty
EmptyBeforeDot(s) == Len(s) > 0 /\ s[1] = DOT

\* the part of s after its first '.' is empty
EmptyAfterDot(s) ==
    \E i \in 1..Len(s) :
        /\ s[i] = DOT
        /\ \A j \in 1..(i - 1) : s[j] # DOT
        /\ (i = Len(s) \/ s[i + 1] = DOT)

\* C10: verifyPassword returns false, for every password, when the stored
\* string is empty, has no '.', or has an empty part before or after its '.'.
C10_MissingPart ==
    (/\ call.op = "verifyPassword"
     /\ \/ NoDot(call.stored)
        \/ EmptyBeforeDot(call.stored)
        \/ EmptyAfterDot(call.stored)) => call.result = Ret(FALSE)

C10_Witness ==
    /\ call.op = "verifyPassword"
    /\ cred.set
    /\ call.password = cred.password
    /\ call.stored = Split(cred.stored, DOT)[1]
    /\ call.result = Ret(FALSE)

\* the number of '.' in t: its split on '.' has one part more
Dots(t) == Cardinality({i \in 1..Len(t) : t[i] = DOT})

\* C11: for every input string whose split on '.' has fewer or more than 3
\* segments, verifyToken returns null without raising and performs no
\* signature or payload processing.
C11_WrongSegmentCount ==
    (call.op = "verifyToken" /\ Dots(call.token) # 2) =>
        /\ call.result = Ret(Null)
        /\ verifyTokenSteps(call.token, call.secret, call.at) = <<>>

\* the issued token followed by ".", verified with its own secret while live
C11_Witness ==
    /\ call.op = "verifyToken"
    /\ issued.set
    /\ call.token = issued.token \o <<DOT>>
    /\ call.secret = issued.secret
    /\ call.at < IssuedExp
    /\ call.result = Ret(Null)

\* the payload segment of token t decoded as base64url and JSON
DecodedPayload(t) == JSONParse(base64UrlDecode(Split(t, DOT)[2]).v).v

\* C16: every token createToken returns has exactly 3 segments, and its
\* payload segment decodes to {sub, email, iat, exp} with sub and email the
\* arguments, iat the clock at issuance and exp - iat = 86400.
C16_TokenShape ==
    (call.op = "createToken" /\ call.result.ok) =>
        /\ Dots(call.result.v) = 2
        /\ base64UrlDecode(Split(call.result.v, DOT)[2]).ok
        /\ JSONParse(base64UrlDecode(Split(call.result.v, DOT)[2]).v).ok
        /\ LET p == DecodedPayload(call.result.v) IN
              /\ p.t = "obj"
              /\ {p.m[i].k : i \in 1..Len(p.m)} = {K_sub, K_email, K_iat, K_exp}
              /\ Len(p.m) = 4
              /\ Get(p, K_sub) = Num(call.userId)
              /\ Get(p, K_email) = Str(call.email)
              /\ Get(p, K_iat) = Num(call.at)
              /\ Get(p, K_exp).v - Get(p, K_iat).v = 86400

\* a token issued after the clock has advanced, for an email with '"', '\'
\* and a Latin-1 letter
C16_Witness ==
    /\ call.op = "createToken"
    /\ call.result.ok
    /\ call.at > 0
    /\ call.userId = 42
    /\ Get(DecodedPayload(call.result.v), K_email) = Str(<<34, 92, 233, 64, 99>>)

\* C17: every string hashPassword returns has exactly one '.', with a
\* non-empty part on each side; the first part base64-decodes to 16 bytes
\* (the salt), the second to 32 bytes, and the second part is the base64 of
\* the key derived again from the password and that salt.
C17_CredentialShape ==
    call.op = "hashPassword" =>
        LET stored == call.result.v
            parts == Split(stored, DOT)
        IN /\ Dots(stored) = 1
           /\ Len(parts[1]) > 0 /\ Len(parts[2]) > 0
           /\ atob(parts[1]).ok /\ Len(atob(parts[1]).v) = 16
           /\ atob(parts[2]).ok /\ Len(atob(parts[2]).v) = 32
           /\ parts[2] = btoa(PBKDF2(TextEncode(call.password), atob(parts[1]).v)).v

\* a credential returned for a password with a non-ASCII letter
C17_Witness ==
    /\ call.op = "hashPassword"
    /\ call.password = <<112, 233>>
    /\ cred.stored = call.result.v
    /\ Len(call.result.v) = 24 + 1 + 44

\* C18: two calls of hashPassword on the same password, each with a fresh
\* salt, return two different strings, and both strings verify against the
\* password.
C18_FreshSalt ==
    (/\ call.op = "hashPassword"
     /\ call.prev.set
     /\ call.prev.password = call.password
     /\ call.prev.salt # cred.salt) =>
        /\ call.result.v # call.prev.stored
        /\ verifyPassword(call.password, call.result.v) = Ret(TRUE)
        /\ verifyPassword(call.password, call.prev.stored) = Ret(TRUE)

C18_Witness ==
    /\ call.op = "hashPassword"
    /\ call.prev.set
    /\ call.prev.password = call.password
    /\ call.prev.salt # cred.salt
    /\ call.result.v # call.prev.stored

\* the decoded stored hash and the key derived again, when verifyPassword
\* reaches its comparison with two arrays of equal length
Compared(password, stored) ==
    LET parts == Split(stored, DOT) IN
    IF Len(parts) < 2 \/ Len(parts[1]) = 0 \/ Len(parts[2]) = 0
       \/ ~atob(parts[1]).ok \/ ~atob(parts[2]).ok
    THEN [reached |-> FALSE]
    ELSE LET expected == atob(parts[2]).v
             actual == deriveKey(password, atob(parts[1]).v)
         IN IF Len(expected) # Len(actual) THEN [reached |-> FALSE]
            ELSE [reached |-> TRUE, expected |-> expected, actual |-> actual]

\* C20: when the decoded stored hash and the derived key have equal length,
\* the comparison reads every byte: the number of bytes examined is the full
\* length whether or where a byte mismatches, and the call returns true
\* exactly when the accumulated XOR is 0.
C20_EveryByteExamined ==
    (call.op = "verifyPassword" /\ Compared(call.password, call.stored).reached) =>
        LET c == Compared(call.password, call.stored)
            loop == CompareLoop(c.expected, c.actual, 1, 0, 0)
        IN /\ loop.examined = Len(c.expected)
           /\ call.result = Ret(loop.result = 0)

\* a stored hash whose first byte differs from the derived key
C20_Witness ==
    /\ call.op = "verifyPassword"
    /\ Compared(call.password, call.stored).reached
    /\ LET c == Compared(call.password, call.stored) IN
          /\ c.expected[1] # c.actual[1]
          /\ \A j \in 2..Len(c.expected) : c.expected[j] = c.actual[j]
    /\ call.result = Ret(FALSE)

\* ── properties of the HTTP layer ──────────────────────────────────────────
\* the payload and the expiry of the token the client holds
HeldPayload == DecodedPayload(held.token)

HeldExp == Get(HeldPayload, K_exp).v

\* GET /auth/me presenting the held token
OwnMe ==
    /\ call.op = "me"
    /\ held.set
    /\ call.header = Str(BearerPrefix \o held.token)

\* the token authMiddleware handed to verifyToken
PresentedToken == SubSeq(call.header.v, 8, Len(call.header.v))

\* the response of the error handler to UnauthorizedError(message)
Unauthorized(message) ==
    [status |-> 401,
     body |-> [success |-> FALSE,
               error |-> [code |-> "UNAUTHORIZED", message |-> message]]]

\* C12: with a clock that never goes backwards, every verification of a
\* token made while now < exp returns its payload, whatever logins, token
\* issuances, verifications, deletions or changes of the user's row happened
\* in between, and once a verification of the token has returned null every
\* later one returns null.
C12_LiveUntilExpiry ==
    OwnMe =>
        /\ call.at < HeldExp => call.verified = Ret(HeldPayload)
        /\ call.wasDead => call.verified = Ret(Null)

\* the held token verified, still live, after the clock advanced and after
\* its user's row was deleted
C12_Witness ==
    /\ OwnMe
    /\ call.at > held.iat
    /\ call.at < HeldExp
    /\ \A u \in db.users : u.id # held.sub
    /\ call.verified = Ret(HeldPayload)

\* the held token refused again after it had been refused once
C12_DeadAgain == OwnMe /\ call.wasDead /\ call.verified = Ret(Null)

\* C13: authMiddleware calls next only when verifyToken returned a payload
\* for the presented token under JWT_SECRET; on every verification failure
\* the request is answered 401 and neither the handler nor getMe runs.
C13_NextOnlyWithPayload ==
    call.op = "me" =>
        /\ call.next =>
              /\ call.verifyCalled
              /\ verifyToken(PresentedToken, JWT_SECRET, call.at) # Ret(Null)
              /\ call.verified = verifyToken(PresentedToken, JWT_SECRET, call.at)
        /\ (call.verifyCalled
                /\ verifyToken(PresentedToken, JWT_SECRET, call.at) = Ret(Null)) =>
              /\ ~call.next
              /\ call.getMeArg = Undefined
              /\ call.response.status = 401
              /\ call.response.body.success = FALSE
              /\ call.response.body.error.code = "UNAUTHORIZED"

\* a well-formed token signed with another secret is refused with 401
C13_Witness ==
    /\ call.op = "me"
    /\ call.header = Str(BearerPrefix \o ForeignToken)
    /\ ~call.next
    /\ call.response.status = 401

\* the user row login matches for the posted address
Matched == SelectByEmail(db.users, call.input.email)

\* the posted password verifies against the matched row
PasswordVerifies ==
    /\ Matched # Undefined
    /\ verifyPassword(call.input.password, Matched.passwordHash) = Ret(TRUE)

\* C14: login calls createToken, and a token is returned, only if a user row
\* with the posted address exists and verifyPassword returned true for the
\* posted password and that row's hash; when the address is unknown or the
\* password wrong, login raises UnauthorizedError "Invalid credentials"
\* (401, UNAUTHORIZED) and no token is created.
C14_TokenOnlyAfterVerify ==
    call.op = "login" =>
        /\ (call.response.status = 200
                \/ \E i \in 1..Len(call.calls) : call.calls[i] = "createToken") =>
              /\ call.invoked
              /\ PasswordVerifies
              /\ call.calls = <<"select", "verifyPassword", "createToken">>
        /\ (call.invoked /\ ~PasswordVerifies) =>
              /\ call.response = Unauthorized("Invalid credentials")
              /\ \A i \in 1..Len(call.calls) : call.calls[i] # "createToken"

\* a wrong password for an existing user
C14_Witness ==
    /\ call.op = "login"
    /\ call.invoked
    /\ Matched # Undefined
    /\ ~PasswordVerifies
    /\ call.response.status = 401
    /\ call.calls = <<"select", "verifyPassword">>

\* the profile getMe returns for user row u
Profile(u) ==
    [id |-> u.id, email |-> u.email, name |-> u.name, createdAt |-> u.createdAt]

\* a successful login returns a token whose sub and email are the id and
\* address of the matched row, with that row as its user object
LoginBindsUser ==
    (call.op = "login" /\ call.response.status = 200) =>
        LET data == call.response.body.data
            p == DecodedPayload(data.token)
        IN /\ Matched # Undefined
           /\ Get(p, K_sub) = Num(Matched.id)
           /\ Get(p, K_email) = Str(Matched.email)
           /\ data.user = [id |-> Matched.id, email |-> Matched.email,
                           name |-> Matched.name]

\* C15 as stated: the token of a successful login carries the id and address
\* of the matched row, and presenting it to /auth/me before it expires hands
\* getMe that id and returns that user's profile with 200.
C15_AlwaysProfile ==
    /\ LoginBindsUser
    /\ (OwnMe /\ call.at < HeldExp) =>
          /\ call.getMeArg = Num(held.sub)
          /\ call.response.status = 200
          /\ call.response.body.data.id = held.sub

\* C15: the token of a successful login carries the id and address of the
\* matched row; presenting it to /auth/me before it expires hands getMe that
\* id, and the answer is that user's profile with 200 while a row with that
\* id exists, and 401 "User not found" once it has been deleted.
C15_ProfileWhileRowExists ==
    /\ LoginBindsUser
    /\ (OwnMe /\ call.at < HeldExp) =>
          /\ call.getMeArg = Num(held.sub)
          /\ IF \E u \in db.users : u.id = held.sub
             THEN call.response
                      = success(Profile(CHOOSE u \in db.users : u.id = held.sub))
             ELSE call.response = Unauthorized("User not found")

\* the token of user 1 presented while both users have their rows
C15_Witness ==
    /\ OwnMe
    /\ call.at < HeldExp
    /\ held.sub = 1
    /\ Cardinality(db.users) = 2
    /\ call.response.status = 200
    /\ call.response.body.data.id = 1

\* the kinds of failure of a presented token t at clock value clock: a wrong
\* segment count, an undecodable signature or payload segment, a signature
\* that is not the HMAC of the first two segments, an exp that has passed
WrongCountClass(t) == Dots(t) # 2

UndecodableClass(t) ==
    /\ Dots(t) = 2
    /\ ~SegmentDecodes(Segs(t)[3]) \/ ~PayloadIsJSON(Segs(t)[2])

MismatchClass(t) ==
    /\ Dots(t) = 2
    /\ SegmentDecodes(Segs(t)[3])
    /\ base64UrlDecode(Segs(t)[3]).v
           # HMAC(TextEncode(JWT_SECRET),
                  TextEncode(Segs(t)[1] \o <<DOT>> \o Segs(t)[2]))

\* t is the held token and the clock has reached its exp
ExpiredClass(t, clock) == held.set /\ t = held.token /\ clock >= HeldExp

\* t is the held token and the clock has passed its exp
PastExpClass(t, clock) == held.set /\ t = held.token /\ clock > HeldExp

\* C19: for a wrong segment count, an undecodable segment, a signature
\* mismatch and an expired token alike, verifyToken returns null and
\* authMiddleware answers 401, UNAUTHORIZED, "Invalid or expired token".
C19_FailuresAlike ==
    (/\ call.op = "me"
     /\ call.verifyCalled
     /\ \/ WrongCountClass(PresentedToken)
        \/ UndecodableClass(PresentedToken)
        \/ MismatchClass(PresentedToken)
        \/ ExpiredClass(PresentedToken, call.at)) =>
        /\ call.verified = Ret(Null)
        /\ call.response = Unauthorized("Invalid or expired token")

\* the same with a token counted as expired only after its exp has passed
C19_AlikePastExp ==
    (/\ call.op = "me"
     /\ call.verifyCalled
     /\ \/ WrongCountClass(PresentedToken)
        \/ UndecodableClass(PresentedToken)
        \/ MismatchClass(PresentedToken)
        \/ PastExpClass(PresentedToken, call.at)) =>
        /\ call.verified = Ret(Null)
        /\ call.response = Unauthorized("Invalid or expired token")


\* ── C21 ───────────────────────────────────────────────────────────────────
\* the primitives the call in progress invokes when none of them raises
InvokedPrimitives ==
    IF call.op = "createToken"
    THEN IF createToken(call.userId, call.email, call.secret, call.at).ok
         THEN {"importKey", "sign"} ELSE {}
    ELSE IF call.op = "verifyToken"
    THEN {st \in SubtleOps :
             \E i \in 1..Len(verifyTokenSteps(call.token, call.secret, call.at)) :
                 verifyTokenSteps(call.token, call.secret, call.at)[i] = st}
    ELSE IF call.op = "hashPassword" THEN {"importKey", "deriveBits"}
    ELSE IF call.op = "verifyPassword"
    THEN LET parts == Split(call.stored, DOT) IN
         IF Len(parts) >= 2 /\ Len(parts[1]) > 0 /\ Len(parts[2]) > 0
               /\ base64ToArrayBuffer(parts[1]).ok
               /\ base64ToArrayBuffer(parts[2]).ok
         THEN {"importKey", "deriveBits"} ELSE {}
    ELSE {}

\* a call on an unusable runtime that invokes a primitive that raises
PrimitiveFails ==
    /\ call # NoCall
    /\ "subtle" \in DOMAIN call
    /\ call.subtle \cap InvokedPrimitives # {}

\* C21: a failure of a cryptographic primitive during createToken,
\* verifyToken, hashPassword or verifyPassword reaches the caller as an error,
\* never as a normal outcome.
C21_PrimitiveFailurePropagates == PrimitiveFails => ~call.result.ok

\* what the code does: the failure propagates from createToken, hashPassword
\* and verifyPassword, and verifyToken turns it into null
C21_VerifyTokenSwallows ==
    PrimitiveFails =>
        IF call.op = "verifyToken" THEN call.result = Ret(Null)
        ELSE call.result = OperationError

\* ── C22 ───────────────────────────────────────────────────────────────────
\* C22: createToken completes and returns a token string for every integer
\* userId, every string email and every secret string.
C22_CreateTokenNeverFails ==
    (call.op = "createToken" /\ "subtle" \notin DOMAIN call) => call.result.ok

\* every code unit of s is at most U+00FF
Latin1(s) == \A i \in 1..Len(s) : s[i] <= 255

\* what the code does on a usable runtime: a token for an email within
\* U+0000..U+00FF, InvalidCharacterError from btoa for any other
C22_FailsAboveLatin1 ==
    (call.op = "createToken" /\ "subtle" \notin DOMAIN call) =>
        IF Latin1(call.email) THEN call.result.ok
        ELSE call.result = Throw("InvalidCharacterError")

\* ── C23 ───────────────────────────────────────────────────────────────────
\* the posted body fails LoginSchema: no email or not an email address, no
\* password or one shorter than 8
InvalidBody ==
    \/ call.body.email = Undefined
    \/ ~IsEmail(call.body.email.v)
    \/ call.body.password = Undefined
    \/ Len(call.body.password.v) < 8

\* C23: POST /auth/login with an invalid email, a password shorter than 8 or
\* a missing field is answered 400, success false, VALIDATION_ERROR, "Invalid
\* input data" with a non-empty details list, and the login service (lookup,
\* password verification, token issuance) is not invoked.
C23_InvalidBodyRejected ==
    (call.op = "login" /\ InvalidBody) =>
        /\ call.response.status = 400
        /\ call.response.body.success = FALSE
        /\ call.response.body.error.code = "VALIDATION_ERROR"
        /\ call.response.body.error.message = "Invalid input data"
        /\ Len(call.response.body.error.details) > 0
        /\ ~call.invoked
        /\ call.calls = <<>>

\* a body with a valid email and a password of fewer than 8 code units
C23_Witness ==
    /\ call.op = "login"
    /\ call.body.email # Undefined
    /\ IsEmail(call.body.email.v)
    /\ call.body.password # Undefined
    /\ Len(call.body.password.v) < 8
    /\ call.response.status = 400

\* ── C24 ───────────────────────────────────────────────────────────────────
\* the Authorization header of the request is absent or its text does not
\* begin with the seven characters "Bearer "
NoBearerHeader ==
    \/ call.header = Undefined
    \/ Len(call.header.v) < 7
    \/ \E i \in 1..7 : call.header.v[i] # BearerPrefix[i]

\* C24: authMiddleware answers 401 UNAUTHORIZED "Missing or invalid
\* authorization header" without calling verifyToken when the Authorization
\* header is absent or does not start with "Bearer "; otherwise the token it
\* hands to verifyToken is the header text after those seven characters.
C24_BearerExtraction ==
    call.op = "me" =>
        IF NoBearerHeader
        THEN /\ call.response
                   = Unauthorized("Missing or invalid authorization header")
             /\ ~call.verifyCalled
             /\ ~call.next
        ELSE /\ call.verifyCalled
             /\ call.token.t = "str"
             /\ Len(call.token.v) = Len(call.header.v) - 7
             /\ \A i \in 1..Len(call.token.v) : call.token.v[i] = call.header.v[i + 7]

\* a header of another scheme ("Basic abc") is refused
C24_Witness ==
    /\ call.op = "me"
    /\ call.header # Undefined
    /\ NoBearerHeader
    /\ call.response.status = 401

\* a header "Bearer " followed by a non-empty token reaches verifyToken
C24_WitnessBearer ==
    /\ call.op = "me"
    /\ ~NoBearerHeader
    /\ call.verifyCalled
    /\ Len(call.token.v) > 0

\* ── C25 ───────────────────────────────────────────────────────────────────
\* a request to /auth/login or /auth/me is served in this step
RequestServed ==
    call = NoCall /\ call' # NoCall /\ call'.op \in {"login", "me"}

\* what verifyToken returned for the request depends on the token, the secret
\* and the clock value of the request only
VerifiedFromTokenSecretClock ==
    (call.op = "me" /\ call.verifyCalled) =>
        call.verified = verifyTokenWith(Usable, call.token.v, JWT_SECRET, call.at)

\* C25: no operation on the request path writes persistent or shared state:
\* every login and every /auth/me request, successful or failed, leaves the
\* users table as it was, no session or token record is kept, and the result
\* of verifyToken depends only on (token, secret, current time).
C25_RequestsWriteNothing ==
    /\ [](VerifiedFromTokenSecretClock)
    /\ [][RequestServed => db' = db]_vars

\* a token is accepted although the table has changed since it was issued
C25_Witness ==
    /\ call.op = "me"
    /\ call.verifyCalled
    /\ call.verified # Ret(Null)
    /\ db # SeededDb
    /\ call.response.status = 200

\* ── C26 ───────────────────────────────────────────────────────────────────
\* the response of POST /auth/login to body when served alone, with the
\* table rows and the clock value clock
AloneLogin(body, rows, clock) ==
    IF LoginSchema(body) # <<>> THEN validate(LoginSchema(body))
    ELSE LET run == login([email |-> body.email.v, password |-> body.password.v],
                          rows, JWT_SECRET, clock).outcome
         IN IF run.ok THEN success(run.v) ELSE onError(run)

\* the response of GET /auth/me to header when served alone
AloneMe(header, rows, clock) ==
    LET mw == authMiddleware(header, JWT_SECRET, clock).outcome IN
    IF ~mw.ok THEN onError(mw)
    ELSE LET data == getMe(mw.v.userId, rows) IN
         IF data.ok THEN success(data.v) ELSE onError(data)

\* C26: concurrent requests with different inputs are independent: under
\* every interleaving of their steps each request ends with the outcome,
\* and the identity in its token, that it has when served alone.
C26_Independent ==
    \A i \in ReqIds :
        inflight[i].pc = "done" =>
            inflight[i].response =
                IF inflight[i].kind = "login"
                THEN AloneLogin(inflight[i].in, db.users, inflight[i].at)
                ELSE AloneMe(inflight[i].in, db.users, inflight[i].at)

\* two logins of different users, served while the other was, both answered
\* 200 with their own user
C26_Witness ==
    /\ \A i \in ReqIds :
          /\ inflight[i].pc = "done"
          /\ inflight[i].kind = "login"
          /\ inflight[i].overlapped
          /\ inflight[i].response.status = 200
    /\ inflight[1].response.body.data.user.id = 1
    /\ inflight[2].response.body.data.user.id = 2

\* a login and a /auth/me of different users, served while the other was
C26_WitnessLoginAndMe ==
    /\ inflight[1].pc = "done" /\ inflight[1].kind = "login"
    /\ inflight[1].overlapped /\ inflight[1].response.status = 200
    /\ inflight[2].pc = "done" /\ inflight[2].kind = "me"
    /\ inflight[2].overlapped /\ inflight[2].response.status = 200
    /\ inflight[1].response.body.data.user.id # inflight[2].response.body.data.id

\* ── C27 ───────────────────────────────────────────────────────────────────
\* C27: buildPaginationMeta returns total, page and pageSize unchanged, and
\* totalPages is the least integer n with n * pageSize >= total: 0 when total
\* is 0, 1 when 0 < total <= pageSize.
C27_TotalPagesIsCeiling ==
    call.op = "buildPaginationMeta" =>
        LET n == call.result.totalPages IN
        /\ call.result.total = call.total
        /\ call.result.page = call.page
        /\ call.result.pageSize = call.pageSize
        /\ n \in Nat
        /\ n * call.pageSize >= call.total
        /\ \A m \in 0..(n - 1) : m * call.pageSize < call.total
        /\ (call.total = 0) => (n = 0)
        /\ (0 < call.total /\ call.total <= call.pageSize) => (n = 1)

\* a total that the page size does not divide: 11 items in pages of 5
C27_Witness ==
    /\ call.op = "buildPaginationMeta"
    /\ call.total = 11
    /\ call.pageSize = 5
    /\ call.result.totalPages = 3

\* ── C28 ───────────────────────────────────────────────────────────────────
\* the row of the user the held token names has been deleted
HolderDeleted == held.set /\ ~\E u \in db.users : u.id = held.sub

\* C28: after a user record is deleted, a GET /auth/me carrying that user's
\* unexpired token passes authMiddleware (verifyToken returns the payload)
\* but getMe finds no row and raises UnauthorizedError "User not found": the
\* response is 401, never a profile.
C28_DeletedUserRefused ==
    (OwnMe /\ call.at < HeldExp /\ HolderDeleted) =>
        /\ call.verified = Ret(HeldPayload)
        /\ call.next
        /\ call.getMeArg = Num(held.sub)
        /\ call.response = Unauthorized("User not found")

\* the token of deleted user 2 presented while user 1 still has a row
C28_Witness ==
    /\ OwnMe
    /\ call.at < HeldExp
    /\ HolderDeleted
    /\ held.sub = 2
    /\ \E u \in db.users : u.id = 1
    /\ call.response.status = 401

\* ── C29 ───────────────────────────────────────────────────────────────────
\* the payload segment of t is a JSON object whose exp lies after clock
LivePayload(t, clock) ==
    /\ PayloadIsJSON(Segs(t)[2])
    /\ DecodedPayload(t).t = "obj"
    /\ Get(DecodedPayload(t), K_exp).t = "num"
    /\ clock < Get(DecodedPayload(t), K_exp).v

\* the signature segment of t carries the HMAC of "header.payload" under secret
SignatureIsHMAC(t, secret) ==
    /\ base64UrlDecode(Segs(t)[3]).ok
    /\ base64UrlDecode(Segs(t)[3]).v
           = HMAC(TextEncode(secret), TextEncode(Segs(t)[1] \o <<DOT>> \o Segs(t)[2]))

\* C29: verifyToken never inspects the decoded header: whatever the header
\* segment declares or contains, a token header.payload.signature with a live
\* payload is accepted, and its payload returned, exactly when the signature
\* is the HMAC of the text "header.payload" under the supplied secret.
C29_HeaderNotInspected ==
    (/\ call.op = "verifyToken"
     /\ Len(Segs(call.token)) = 3
     /\ LivePayload(call.token, call.at)) =>
        IF SignatureIsHMAC(call.token, call.secret)
        THEN call.result = Ret(DecodedPayload(call.token))
        ELSE call.result = Ret(Null)

\* a signed token whose header declares alg "none" is accepted
C29_Witness ==
    /\ call.op = "verifyToken"
    /\ Segs(call.token)[1] = NoneHeaderSeg
    /\ SignatureIsHMAC(call.token, call.secret)
    /\ call.result = Ret(DecodedPayload(call.token))

\* a signed token whose header segment is not base64 is accepted
C29_WitnessNotBase64 ==
    /\ call.op = "verifyToken"
    /\ Len(Segs(call.token)) = 3
    /\ ~SegmentDecodes(Segs(call.token)[1])
    /\ call.result # Ret(Null)

\* ── C30 ───────────────────────────────────────────────────────────────────
\* the error carries a status that is a number
CarriesNumericStatus(err) == "status" \in DOMAIN err /\ err.status.t = "num"

\* the code the table holds for a status, INTERNAL_ERROR when it has none
CodeOfStatus(st) ==
    LET table == [k \in {400, 401, 403, 404, 409, 500} |->
                     IF k = 400 THEN "BAD_REQUEST"
                     ELSE IF k = 401 THEN "UNAUTHORIZED"
                     ELSE IF k = 403 THEN "FORBIDDEN"
                     ELSE IF k = 404 THEN "NOT_FOUND"
                     ELSE IF k = 409 THEN "CONFLICT"
                     ELSE "INTERNAL_ERROR"]
    IN IF st \in DOMAIN table THEN table[st] ELSE "INTERNAL_ERROR"

\* C30: the global error handler answers every thrown error with the envelope
\* {success: false, error: {code, message}}: for an error carrying a numeric
\* status, that HTTP status, the error's message and the code of that status
\* (INTERNAL_ERROR when the status has no entry); for any other error, status
\* 500, code INTERNAL_ERROR and the fixed message "Internal server error",
\* never the error's own message.
C30_ErrorEnvelope ==
    call.op = "onError" =>
        /\ DOMAIN call.response = {"status", "body"}
        /\ DOMAIN call.response.body = {"success", "error"}
        /\ DOMAIN call.response.body.error = {"code", "message"}
        /\ call.response.body.success = FALSE
        /\ IF CarriesNumericStatus(call.err)
           THEN /\ call.response.status = call.err.status.v
                /\ call.response.body.error.message = call.err.message
                /\ call.response.body.error.code = CodeOfStatus(call.err.status.v)
           ELSE /\ call.response.status = 500
                /\ call.response.body.error.code = "INTERNAL_ERROR"
                /\ call.response.body.error.message = "Internal server error"

\* an error without a status and with a message of its own
C30_Witness ==
    /\ call.op = "onError"
    /\ ~CarriesNumericStatus(call.err)
    /\ "message" \in DOMAIN call.err
    /\ call.err.message = "boom"
    /\ call.response.status = 500

\* an error whose status has no entry: 422 with code INTERNAL_ERROR
C30_WitnessNoEntry ==
    /\ call.op = "onError"
    /\ CarriesNumericStatus(call.err)
    /\ call.err.status.v = 422
    /\ call.response.status = 422
    /\ call.response.body.error.code = "INTERNAL_ERROR"

=============================================================================
